---------------------------- MODULE Spec2Model ----------------------------
(***************************************************************************)
(* Field extraction and normalisation engine of the Textract invoice       *)
(* processor: the amount/currency parser, the header matcher, the row      *)
(* classifier, the table reconstructor, the invoice-total resolver and the *)
(* query override of parse_extracted_data.                                 *)
(*                                                                         *)
(* Python text is a TLA+ string; s[i] is SubSeq(s, i, i).  A Python value  *)
(* that may be a float, a str or None is a record with a kind field.  A    *)
(* float is kept as the decimal it was parsed from: (-1)^neg * num /       *)
(* 10^scale, with the trailing zeros of the fraction removed.              *)
(***************************************************************************)
EXTENDS Integers, Sequences, FiniteSets, TLC

VARIABLES
  pc,               \* position of the modelled call
  text,             \* parse_amount_with_currency: its argument
  amount_info,      \* parse_amount_with_currency: the returned dictionary
  legacy_info,      \* parse_amount_with_currency of invoice_processor.py: its dictionary
  header_text,      \* match_header_enhanced: its argument
  field,            \* match_header_enhanced: the returned field
  kv_pairs,         \* find_invoice_total: the (key, value) items, in insertion order
  table_totals,     \* find_invoice_total: the (total_text, value) items, in insertion order
  all_text,         \* find_invoice_total: the document text
  best_total,       \* find_invoice_total: None or the best Amount so far
  best_priority,    \* find_invoice_total: its adjusted priority
  table_candidates, \* find_invoice_total: the (amount_info, actual_priority) list
  total,            \* find_invoice_total: the returned dictionary
  pages_done,       \* extract_line_items_from_tables: pages of tables taken so far
  rows_dict,        \* extract_line_items_from_tables: the page's row -> column -> text
  rows,             \* extract_line_items_from_tables: the page's materialized rows
  headers,          \* extract_line_items_from_tables: the chosen header's fields
  header_row_idx,   \* extract_line_items_from_tables: its 0-based index in rows
  row_idx,          \* extract_line_items_from_tables: 0-based index in data_rows
  all_line_items,   \* extract_line_items_from_tables: the list being returned
  parsed,           \* parse_extracted_data: the dictionary being returned
  queries,          \* parse_extracted_data: results['queries']
  q_idx,            \* parse_extracted_data: 1-based position of the loop of line 724
  max_parallel,     \* process_folder: the size of the worker pool
  pdf_files,        \* process_folder: the number of PDF files found; file d is 1..pdf_files
  submitted,        \* process_folder: the files submitted to the pool so far
  task,             \* process_single_document: each file's position in its task
  job,              \* the analysis service: each file's JobStatus
  elapsed,          \* wait_for_completion: each file's waited time, in sleeps
  got,              \* get_all_pages: each file's len(pages)
  results,          \* process_single_document: each file's results dictionary
  cur,              \* process_folder: the file of the future being collected
  collected,        \* process_folder: the futures as_completed has yielded
  all_results,      \* process_folder: the (filename, results) list
  all_parsed,       \* process_folder: the (filename, parsed) list
  final_outputs,    \* final_outputs/{stem}_extracted.json: each file's keys
  blocks,           \* extract_invoice_data: the CELL blocks of textract_output["Blocks"]
  b_idx,            \* extract_invoice_data: 1-based position of the loop of line 565
  tables,           \* extract_invoice_data: page -> rows, in insertion order
  t_idx,            \* extract_line_items_from_tables: 1-based position of the loop of line 373
  origins,          \* the (page, row) each appended line item was read from
  pipeline,         \* which program builds kv_pairs: invoice_processor.py or textract_client.py
  key_blocks,       \* the KEY blocks of the document, in block order
  k_idx,            \* 1-based position of the loop over the KEY blocks or over the forms
  forms,            \* extract_forms: the list being returned
  run,              \* which of the two successive sync_folder calls is running
  local_files,      \* sync_folder: the names of the local PDF files
  bucket,           \* the keys of the objects in the S3 bucket
  metadata_file,    \* the content of .s3_sync_metadata.json
  sync_metadata,    \* sync_folder: the metadata dictionary
  s3_files,         \* sync_folder: filename -> key, from get_s3_files
  todo,             \* sync_folder: the files the running loop has still to take
  uploaded,         \* sync_folder: the uploaded list
  skipped,          \* sync_folder: the skipped list
  deleted,          \* sync_folder: the deleted list
  call_failed       \* a call of the storage service has raised ClientError

amountVars == <<text, amount_info, legacy_info>>

headerVars == <<header_text, field>>

totalInputs == <<kv_pairs, table_totals, all_text>>

totalVars == <<totalInputs, best_total, best_priority, table_candidates, total>>

pageVars == <<rows_dict, rows, headers, header_row_idx, row_idx>>

tableVars == <<pages_done, pageVars, all_line_items>>

queryVars == <<parsed, queries, q_idx>>

batchVars == <<max_parallel, pdf_files, submitted, task, job, elapsed, got, results,
               cur, collected, all_results, all_parsed, final_outputs>>

orderVars == <<blocks, b_idx, tables, t_idx, origins>>

formVars == <<pipeline, key_blocks, k_idx, forms>>

syncVars == <<run, local_files, bucket, metadata_file, sync_metadata, s3_files, todo,
              uploaded, skipped, deleted, call_failed>>

folderVars == <<batchVars, orderVars, formVars, syncVars>>

vars == <<pc, amountVars, headerVars, totalVars, tableVars, queryVars, folderVars>>

-----------------------------------------------------------------------------
(* Python values *)

None == [kind |-> "None", str |-> "", neg |-> FALSE, num |-> 0, scale |-> 0]

Str(s) == [kind |-> "str", str |-> s, neg |-> FALSE, num |-> 0, scale |-> 0]

Float(neg, num, scale) ==
  [kind |-> "float", str |-> "", neg |-> neg, num |-> num, scale |-> scale]

\* isinstance(v, (int, float))
IsNumber(v) == v.kind = "float"

\* v > 0 for a float
IsPositive(v) == v.kind = "float" /\ ~v.neg /\ v.num > 0

\* a == b for two floats (-0.0 == 0.0)
NumEq(a, b) ==
  /\ a.kind = "float" /\ b.kind = "float"
  /\ a.num = b.num /\ a.scale = b.scale
  /\ (a.num = 0 \/ a.neg = b.neg)

\* The dictionary {"value": ..., "currency": ..., "formatted": ...}
Amount(value, currency, formatted) ==
  [value |-> value, currency |-> currency, formatted |-> formatted]

-----------------------------------------------------------------------------
(* str methods *)

DIGITS == "0123456789"

UPPERCASE == "ABCDEFGHIJKLMNOPQRSTUVWXYZ"

LOWERCASE == "abcdefghijklmnopqrstuvwxyz"

WHITESPACE == {" ", "\t", "\n"}

At(s, i) == SubSeq(s, i, i)

\* The index of the one-character string c in s, 0 when absent
IndexOf(s, c) ==
  IF \E i \in 1..Len(s) : At(s, i) = c
    THEN CHOOSE i \in 1..Len(s) : At(s, i) = c /\ \A j \in 1..(i - 1) : At(s, j) # c
    ELSE 0

\* The characters of s, as a set
Chars(s) == {At(s, i) : i \in 1..Len(s)}

DigitChars == Chars(DIGITS)

WordChars == Chars(DIGITS) \cup Chars(LOWERCASE) \cup Chars(UPPERCASE) \cup {"_"}

\* The lower-case letter of each upper-case letter
ToLower == [c \in Chars(UPPERCASE) |-> At(LOWERCASE, IndexOf(UPPERCASE, c))]

IsDigit(c) == c \in DigitChars

\* \w of the re module, on the characters the model uses
IsWordChar(c) == c \in WordChars

\* sub in s
Contains(sub, s) ==
  \E i \in 1..(Len(s) - Len(sub) + 1) : SubSeq(s, i, i + Len(sub) - 1) = sub

LowerChar(c) == IF c \in DOMAIN ToLower THEN ToLower[c] ELSE c

RECURSIVE Lower(_)
\* s.lower()
Lower(s) == IF s = "" THEN "" ELSE LowerChar(Head(s)) \o Lower(Tail(s))

RECURSIVE Replace(_, _, _)
\* s.replace(c, r) for a one-character c
Replace(s, c, r) ==
  IF s = "" THEN ""
  ELSE (IF Head(s) = c THEN r ELSE Head(s)) \o Replace(Tail(s), c, r)

RECURSIVE LStrip(_)
LStrip(s) == IF s # "" /\ Head(s) \in WHITESPACE THEN LStrip(Tail(s)) ELSE s

RECURSIVE RStrip(_)
RStrip(s) ==
  IF s # "" /\ At(s, Len(s)) \in WHITESPACE THEN RStrip(SubSeq(s, 1, Len(s) - 1)) ELSE s

\* s.strip()
Strip(s) == RStrip(LStrip(s))

\* s.count(c) for a one-character c
Count(s, c) == Cardinality({i \in 1..Len(s) : At(s, i) = c})

\* The index of the last c in s, 0 when absent
LastIndexOf(s, c) ==
  IF \E i \in 1..Len(s) : At(s, i) = c
    THEN CHOOSE i \in 1..Len(s) : At(s, i) = c /\ \A j \in (i + 1)..Len(s) : At(s, j) # c
    ELSE 0

-----------------------------------------------------------------------------
(* float(...) of a decimal literal *)

RECURSIVE ToNat(_)
ToNat(s) == IF s = "" THEN 0 ELSE 10 * ToNat(SubSeq(s, 1, Len(s) - 1)) + (IndexOf(DIGITS, At(s, Len(s))) - 1)

RECURSIVE StripTrailingZeros(_)
StripTrailingZeros(s) ==
  IF s # "" /\ At(s, Len(s)) = "0" THEN StripTrailingZeros(SubSeq(s, 1, Len(s) - 1)) ELSE s

\* float(m) for m matching [-+]?\d*\.?\d+
ToFloat(m) ==
  LET neg  == m # "" /\ Head(m) = "-"
      body == IF m # "" /\ Head(m) \in {"-", "+"} THEN Tail(m) ELSE m
      dot  == IndexOf(body, ".")
      ip   == IF dot = 0 THEN body ELSE SubSeq(body, 1, dot - 1)
      fp   == IF dot = 0 THEN "" ELSE StripTrailingZeros(SubSeq(body, dot + 1, Len(body)))
  IN  Float(neg, ToNat(ip \o fp), Len(fp))

-----------------------------------------------------------------------------
(* re.search(r'[-+]?\d*\.?\d+', s) *)

\* The first index >= i of s that holds no digit (Len(s) + 1 when the digits run to the end)
DigitsEnd(s, i) ==
  IF \E k \in i..Len(s) : ~IsDigit(At(s, k))
    THEN CHOOSE k \in i..Len(s) : ~IsDigit(At(s, k)) /\ \A j \in i..(k - 1) : IsDigit(At(s, j))
    ELSE Len(s) + 1

\* \d*\.?\d+ tried at index j: one past the end of the match, 0 when it fails.
\* \d* takes the whole run of digits; a '.' is taken when a digit follows it;
\* otherwise \d* gives its last digit back to \d+.  k is where the digits from j end.
CoreEndAfter(s, j, k) ==
  IF k + 1 <= Len(s) /\ At(s, k) = "." /\ IsDigit(At(s, k + 1))
    THEN DigitsEnd(s, k + 1)
  ELSE IF k > j THEN k
  ELSE 0

\* \d*\.?\d+ tried at index j, \d* ending before index DigitsEnd(s, j)
NumberCoreEnd(s, j) == CoreEndAfter(s, j, DigitsEnd(s, j))

\* The pattern tried at index i
NumberEndAt(s, i) ==
  IF At(s, i) \in {"-", "+"} THEN NumberCoreEnd(s, i + 1) ELSE NumberCoreEnd(s, i)

\* match.group() of the leftmost match, "" when there is none
SearchNumber(s) ==
  IF \E i \in 1..Len(s) : NumberEndAt(s, i) # 0
    THEN LET i == CHOOSE i \in 1..Len(s) :
                    NumberEndAt(s, i) # 0 /\ \A j \in 1..(i - 1) : NumberEndAt(s, j) = 0
         IN  SubSeq(s, i, NumberEndAt(s, i) - 1)
    ELSE ""

-----------------------------------------------------------------------------
(* f"{value:,.2f}" *)

RECURSIVE Pow10(_)
Pow10(n) == IF n = 0 THEN 1 ELSE 10 * Pow10(n - 1)

RECURSIVE NatStr(_)
\* str(n) for a natural number n
NatStr(n) == IF n < 10 THEN At(DIGITS, n + 1) ELSE NatStr(n \div 10) \o At(DIGITS, (n % 10) + 1)

RECURSIVE Grouped(_)
\* The digits of an integer part with ',' between groups of three
Grouped(s) ==
  IF Len(s) <= 3 THEN s
  ELSE Grouped(SubSeq(s, 1, Len(s) - 3)) \o "," \o SubSeq(s, Len(s) - 2, Len(s))

\* The value in hundredths, rounded to nearest.  A decimal that lies exactly
\* half way is rounded by the binary value of the float; the model rounds it
\* to even, which is what Python does when the decimal is a dyadic fraction.
Cents(v) ==
  IF v.scale <= 2 THEN v.num * Pow10(2 - v.scale)
  ELSE LET unit == Pow10(v.scale - 2)
           q    == v.num \div unit
           r    == v.num % unit
       IN  IF 2 * r > unit THEN q + 1
           ELSE IF 2 * r < unit THEN q
           ELSE IF q % 2 = 0 THEN q ELSE q + 1

\* The value rendered with one decimal place, f"{value:,.1f}" with the second dropped
FormatOneDecimal(v) ==
  (IF v.neg THEN "-" ELSE "")
    \o Grouped(NatStr(Cents(v) \div 100)) \o "." \o At(DIGITS, ((Cents(v) % 100) \div 10) + 1)

\* f"{value:,.2f}"
FormatFloat(v) ==
  LET c  == Cents(v)
      fr == c % 100
  IN  (IF v.neg THEN "-" ELSE "")
        \o Grouped(NatStr(c \div 100)) \o "."
        \o At(DIGITS, (fr \div 10) + 1) \o At(DIGITS, (fr % 10) + 1)

-----------------------------------------------------------------------------
(* textract_modules/config.py *)

CURRENCY_SYMBOLS == <<"€", "$", "£", "¥", "₹">>

-----------------------------------------------------------------------------
(* textract_modules/utils.py: the amount/currency parser *)

\* for symbol in CURRENCY_SYMBOLS: if symbol in text: currency = symbol; break
DetectCurrency(t) ==
  IF \E i \in 1..Len(CURRENCY_SYMBOLS) : Contains(CURRENCY_SYMBOLS[i], t)
    THEN CURRENCY_SYMBOLS[CHOOSE i \in 1..Len(CURRENCY_SYMBOLS) :
            /\ Contains(CURRENCY_SYMBOLS[i], t)
            /\ \A j \in 1..(i - 1) : ~Contains(CURRENCY_SYMBOLS[j], t)]
    ELSE ""

RECURSIVE RemoveSymbols(_, _)
\* for symbol in CURRENCY_SYMBOLS[i..]: cleaned = cleaned.replace(symbol, "")
RemoveSymbols(t, i) ==
  IF i > Len(CURRENCY_SYMBOLS) THEN t
  ELSE RemoveSymbols(Replace(t, CURRENCY_SYMBOLS[i], ""), i + 1)

\* cleaned, as line 38 leaves it
StripSymbolsAndCommas(t) == Strip(Replace(RemoveSymbols(t, 1), ",", ""))

\* The multi-dot step with the length test of the last part off by one
SplitDotsLastThree(cleaned) ==
  IF Count(cleaned, ".") > 1
    THEN LET last == LastIndexOf(cleaned, ".")
             tail == SubSeq(cleaned, last + 1, Len(cleaned))
         IN  IF Len(tail) = 3
               THEN Replace(SubSeq(cleaned, 1, last - 1), ".", "") \o "." \o tail
               ELSE Replace(cleaned, ".", "")
    ELSE cleaned

\* Lines 41-47: with more than one '.', parts = cleaned.split("."); the last
\* '.' stays when len(parts[-1]) == 2, otherwise every '.' goes
SplitDots(cleaned) ==
  IF Count(cleaned, ".") > 1
    THEN LET last == LastIndexOf(cleaned, ".")
             tail == SubSeq(cleaned, last + 1, Len(cleaned))
         IN  IF Len(tail) = 2
               THEN Replace(SubSeq(cleaned, 1, last - 1), ".", "") \o "." \o tail
               ELSE Replace(cleaned, ".", "")
    ELSE cleaned

\* Lines 49-58: the pair returned for the match m of line 51 ("" for no match)
ValueAndCurrency(m, currency) ==
  IF m # "" THEN [value |-> ToFloat(m), currency |-> currency]
  ELSE [value |-> None, currency |-> currency]

\* clean_currency_text(text): the pair (value, currency)
clean_currency_text(t) ==
  IF t = "" THEN [value |-> None, currency |-> ""]
  ELSE ValueAndCurrency(SearchNumber(SplitDots(StripSymbolsAndCommas(t))), DetectCurrency(t))

\* f"{currency} {formatted}" when there is a currency, formatted otherwise (lines 76-78)
WithCurrency(currency, formatted) ==
  IF currency # "" THEN currency \o " " \o formatted ELSE formatted

\* Lines 75-81: the dictionary built from the pair r of line 73
AmountOf(t, r) ==
  IF IsNumber(r.value)
    THEN Amount(r.value, r.currency, WithCurrency(r.currency, FormatFloat(r.value)))
    ELSE Amount(Str(t), "", t)

\* parse_amount_with_currency(text)
parse_amount_with_currency(t) ==
  IF t = "" THEN Amount(Str(""), "", "")
  ELSE AmountOf(t, clean_currency_text(t))

-----------------------------------------------------------------------------
(* invoice_processor.py: the amount/currency parser of the single-file pipeline *)

\* cleaned, as line 120 leaves it: ',', '€', '$' and '£' removed, then .strip()
LegacyStripped(t) ==
  Strip(Replace(Replace(Replace(Replace(t, ",", ""), "€", ""), "$", ""), "£", ""))

\* Lines 131-140: the pair returned for the match m of line 133; the text itself
\* stands for the value when there is no match
LegacyValueAndCurrency(t, m, currency) ==
  IF m # "" THEN [value |-> ToFloat(m), currency |-> currency]
  ELSE [value |-> Str(t), currency |-> currency]

\* clean_currency_text(text) of lines 106-140; lines 112-117 and 123-129 are
\* the symbol search and the multi-dot step of utils.py
legacy_clean_currency_text(t) ==
  IF t = "" THEN [value |-> None, currency |-> ""]
  ELSE LegacyValueAndCurrency(t, SearchNumber(SplitDots(LegacyStripped(t))), DetectCurrency(t))

\* f"{formatted} {currency}" when there is a currency (lines 149-151)
LegacyWithCurrency(currency, formatted) ==
  IF currency # "" THEN formatted \o " " \o currency ELSE formatted

\* Lines 148-154: the dictionary built from the pair r of line 147
LegacyAmountOf(t, r) ==
  IF IsNumber(r.value)
    THEN Amount(r.value, r.currency, LegacyWithCurrency(r.currency, FormatFloat(r.value)))
    ELSE Amount(Str(t), "", t)

\* parse_amount_with_currency(text) of lines 142-154
legacy_parse_amount_with_currency(t) ==
  IF t = "" THEN Amount(Str(""), "", "")
  ELSE LegacyAmountOf(t, legacy_clean_currency_text(t))

-----------------------------------------------------------------------------
(* textract_modules/config.py: HEADER_PATTERNS, in declaration order *)

HEADER_FIELDS == <<"description", "quantity", "unitprice", "amount">>

HEADER_PATTERNS ==
  [f \in {"description", "quantity", "unitprice", "amount"} |->
    CASE f = "description" ->
      <<"description", "service", "item", "details", "work performed",
        "service description", "product", "article", "task", "work", "desc">>
      [] f = "quantity" ->
      <<"qty", "quantity", "hours", "units", "hrs/qty", "hrs", "units", "amount",
        "number", "count", "count", "hrs", "hours", "hrs qty", "hrs/qty">>
      [] f = "unitprice" ->
      <<"unit price", "price", "rate", "rate/price", "unit cost", "price per unit",
        "cost", "rate", "unit rate", "each", "rate price">>
      [] f = "amount" ->
      <<"amount", "total", "sub total", "line total", "extended amount", "sum", "value",
        "cost", "charge", "price", "subtotal", "sub_total">>]

-----------------------------------------------------------------------------
(* textract_modules/utils.py: match_header_enhanced *)

RECURSIVE PunctuationToSpaces(_)
\* re.sub(r'[^\w\s/]', ' ', s)
PunctuationToSpaces(s) ==
  IF s = "" THEN ""
  ELSE (IF IsWordChar(Head(s)) \/ Head(s) \in WHITESPACE \/ Head(s) = "/"
          THEN Head(s) ELSE " ") \o PunctuationToSpaces(Tail(s))

RECURSIVE CollapseSpaces(_)
\* ' '.join(s.split()) for an s without leading whitespace
CollapseSpaces(s) ==
  IF s = "" THEN ""
  ELSE IF Head(s) \in WHITESPACE
    THEN (IF LStrip(s) = "" THEN "" ELSE " " \o CollapseSpaces(LStrip(s)))
  ELSE Head(s) \o CollapseSpaces(Tail(s))

\* header_clean of lines 227-230
CleanHeader(s) == CollapseSpaces(LStrip(PunctuationToSpaces(Strip(Lower(s)))))

\* \b between s[p - 1] and s[p]: exactly one of the two is a word character
WordBoundary(s, p) ==
  LET before == p > 1 /\ IsWordChar(At(s, p - 1))
      after  == p <= Len(s) /\ IsWordChar(At(s, p))
  IN  before # after

\* re.search(r'\b' + re.escape(pattern) + r'\b', s)
WholeWord(pattern, s) ==
  \E i \in 1..(Len(s) - Len(pattern) + 1) :
    /\ SubSeq(s, i, i + Len(pattern) - 1) = pattern
    /\ WordBoundary(s, i)
    /\ WordBoundary(s, i + Len(pattern))

\* The inner loop body without the substring test of line 244
PatternMatchesAsWord(pattern, clean) ==
  \/ clean = pattern
  \/ WholeWord(pattern, clean)

\* The three tests of the inner loop body
PatternMatches(pattern, clean) ==
  \/ clean = pattern
  \/ WholeWord(pattern, clean)
  \/ Contains(pattern, clean)

\* Some pattern of the field's list returns the field
FieldMatches(f, clean) ==
  \E j \in 1..Len(HEADER_PATTERNS[f]) : PatternMatches(HEADER_PATTERNS[f][j], clean)

\* The loops returning the last field with a matching pattern instead of the first
LastMatchingField(clean) ==
  IF \E i \in 1..Len(HEADER_FIELDS) : FieldMatches(HEADER_FIELDS[i], clean)
    THEN Str(HEADER_FIELDS[CHOOSE i \in 1..Len(HEADER_FIELDS) :
            /\ FieldMatches(HEADER_FIELDS[i], clean)
            /\ \A k \in (i + 1)..Len(HEADER_FIELDS) : ~FieldMatches(HEADER_FIELDS[k], clean)])
    ELSE None

\* Lines 233-247: the loops over HEADER_PATTERNS.items() return at the first
\* pattern that passes a test, that is the first field with such a pattern
FirstMatchingField(clean) ==
  IF \E i \in 1..Len(HEADER_FIELDS) : FieldMatches(HEADER_FIELDS[i], clean)
    THEN Str(HEADER_FIELDS[CHOOSE i \in 1..Len(HEADER_FIELDS) :
            /\ FieldMatches(HEADER_FIELDS[i], clean)
            /\ \A k \in 1..(i - 1) : ~FieldMatches(HEADER_FIELDS[k], clean)])
    ELSE None

\* match_header_enhanced(header_text): Str(field) or None
match_header_enhanced(h) ==
  IF h.kind # "str" \/ h.str = "" THEN None
  ELSE FirstMatchingField(CleanHeader(h.str))

-----------------------------------------------------------------------------
(* textract_modules/config.py: TOTAL_KEYWORDS *)

TOTAL_KEYWORDS ==
  << <<"total", 1>>, <<"subtotal", 2>>, <<"amount due", 8>>, <<"invoice total", 7>>,
     <<"grand total", 9>>, <<"final total", 10>>, <<"total due", 8>>,
     <<"gross total", 11>>, <<"gross amount", 12>>, <<"total amount", 6>>,
     <<"net amount", 3>>, <<"total incl", 13>>, <<"incl. vat", 14>>,
     <<"including vat", 14>>, <<"total fees and disbursements", 15>>,
     <<"balance due", 8>>, <<"amount payable", 7>>
  >>

-----------------------------------------------------------------------------
(* textract_modules/utils.py: find_invoice_total *)

\* A candidate total: an Amount and its adjusted priority
Candidate(amount, priority) == [amount |-> amount, priority |-> priority]

\* The test of lines 136, 160 and 201 with the sign of the value not looked at
IsAnyNumber(amount) == IsNumber(amount.value)

\* isinstance(amount_info["value"], (int, float)) and amount_info["value"] > 0
Qualifies(amount) == IsNumber(amount.value) /\ IsPositive(amount.value)

\* The priority of a key-value hit without the additions of lines 141-146
KVBasePriority(k_lower, keyword, priority) == priority

\* Lines 138-146: the adjusted priority of a key-value hit
KVPriority(k_lower, keyword, priority) ==
  priority
    + (IF k_lower = keyword \/ Strip(Replace(k_lower, ":", "")) = keyword THEN 5 ELSE 0)
    + (IF \E term \in {"incl", "including", "with vat", "with tax"} : Contains(term, k_lower)
         THEN 3 ELSE 0)

\* Lines 162-172: the adjusted priority of a table-row hit
TablePriority(total_text_lower, priority) ==
  priority
    + (IF Contains("fees and disbursements", total_text_lower) THEN 10
       ELSE IF /\ Contains("gross", total_text_lower)
               /\ (Contains("incl", total_text_lower) \/ Contains("vat", total_text_lower))
         THEN 8
       ELSE IF Contains("grand total", total_text_lower) THEN 7
       ELSE IF Contains("final", total_text_lower) THEN 6
       ELSE 0)

RECURSIVE KVHits(_, _, _)
\* Lines 133-147 for one pair, k_lower = k.lower().strip() and amount =
\* parse_amount_with_currency(v): the candidates of keywords j.., in keyword order
KVHits(k_lower, amount, j) ==
  IF j > Len(TOTAL_KEYWORDS) THEN <<>>
  ELSE LET keyword == TOTAL_KEYWORDS[j][1]
       IN  (IF Contains(keyword, k_lower) /\ Qualifies(amount)
              THEN <<Candidate(amount, KVPriority(k_lower, keyword, TOTAL_KEYWORDS[j][2]))>>
              ELSE <<>>) \o KVHits(k_lower, amount, j + 1)

RECURSIVE KVCandidates(_, _)
\* Lines 131-147: the candidates of pairs i.., in iteration order
KVCandidates(kv, i) ==
  IF i > Len(kv) THEN <<>>
  ELSE KVHits(Strip(Lower(kv[i][1])), parse_amount_with_currency(kv[i][2]), 1)
         \o KVCandidates(kv, i + 1)

RECURSIVE TableHits(_, _, _)
\* Lines 157-174 for one table row, total_text_lower = total_text.lower() and
\* amount = parse_amount_with_currency(value)
TableHits(total_text_lower, amount, j) ==
  IF j > Len(TOTAL_KEYWORDS) THEN <<>>
  ELSE LET keyword == TOTAL_KEYWORDS[j][1]
       IN  (IF Contains(keyword, total_text_lower) /\ Qualifies(amount)
              THEN <<Candidate(amount, TablePriority(total_text_lower, TOTAL_KEYWORDS[j][2]))>>
              ELSE <<>>) \o TableHits(total_text_lower, amount, j + 1)

RECURSIVE TableCandidates(_, _)
\* Lines 154-174: table_candidates
TableCandidates(tt, i) ==
  IF i > Len(tt) THEN <<>>
  ELSE TableHits(Lower(tt[i][1]), parse_amount_with_currency(tt[i][2]), 1)
         \o TableCandidates(tt, i + 1)

RECURSIVE KeepBest(_, _)
RECURSIVE KeepLatestBest(_, _)
\* The loop with >= in place of >: the last of the candidates of highest priority
KeepLatestBest(cands, b) ==
  IF cands = <<>> THEN b
  ELSE KeepLatestBest(Tail(cands),
                      IF Head(cands).priority >= b.priority
                        THEN [total |-> Head(cands).amount, priority |-> Head(cands).priority]
                        ELSE b)

\* "if priority > best_priority: best = candidate" over a list of candidates,
\* from the running best b = [total, priority]
KeepBest(cands, b) ==
  IF cands = <<>> THEN b
  ELSE KeepBest(Tail(cands),
                IF Head(cands).priority > b.priority
                  THEN [total |-> Head(cands).amount, priority |-> Head(cands).priority]
                  ELSE b)

RECURSIVE InsertByPriority(_, _)
\* c put into a list sorted by priority descending, after the candidates that
\* are not below it
InsertByPriority(sorted, c) ==
  IF sorted = <<>> THEN <<c>>
  ELSE IF Head(sorted).priority >= c.priority
    THEN <<Head(sorted)>> \o InsertByPriority(Tail(sorted), c)
  ELSE <<c>> \o sorted

RECURSIVE SortByPriority(_)
\* table_candidates.sort(key=lambda x: x[1], reverse=True): a stable sort
SortByPriority(cands) ==
  IF cands = <<>> THEN <<>>
  ELSE InsertByPriority(SortByPriority(SubSeq(cands, 1, Len(cands) - 1)), cands[Len(cands)])

\* Lines 177-183 with >= in place of >
PickTableOnTie(cands, b) ==
  IF cands # <<>> /\ SortByPriority(cands)[1].priority >= b.priority
    THEN [total |-> SortByPriority(cands)[1].amount,
          priority |-> SortByPriority(cands)[1].priority]
    ELSE b

\* Lines 177-183: the best table candidate against the running best
PickTable(cands, b) ==
  IF cands # <<>> /\ SortByPriority(cands)[1].priority > b.priority
    THEN [total |-> SortByPriority(cands)[1].amount,
          priority |-> SortByPriority(cands)[1].priority]
    ELSE b

\* Lines 187-195: the words each pattern joins by \s+ before
\* [^0-9]*([€$£¥₹]?\s*[0-9,]+\.?\d*), and its priority
TOTAL_PATTERNS ==
  << [words |-> <<"total", "fees", "and", "disbursements">>, priority |-> 20],
     [words |-> <<"gross", "amount", "incl">>, priority |-> 18],
     [words |-> <<"grand", "total">>, priority |-> 15],
     [words |-> <<"final", "total">>, priority |-> 15],
     [words |-> <<"total", "due">>, priority |-> 12],
     [words |-> <<"amount", "due">>, priority |-> 12],
     [words |-> <<"invoice", "total">>, priority |-> 10]
  >>

\* The first index >= i of s that holds no whitespace
SpacesEnd(s, i) ==
  IF \E k \in i..Len(s) : At(s, k) \notin WHITESPACE
    THEN CHOOSE k \in i..Len(s) :
           At(s, k) \notin WHITESPACE /\ \A j \in i..(k - 1) : At(s, j) \in WHITESPACE
    ELSE Len(s) + 1

RECURSIVE WordsEnd(_, _, _, _)
\* words[w..] joined by \s+ tried at index i of s: one past the end, 0 when it fails
WordsEnd(words, w, s, i) ==
  LET e == i + Len(words[w])
  IN  IF e - 1 > Len(s) \/ SubSeq(s, i, e - 1) # words[w] THEN 0
      ELSE IF w = Len(words) THEN e
      ELSE IF SpacesEnd(s, e) = e THEN 0
      ELSE WordsEnd(words, w + 1, s, SpacesEnd(s, e))

\* The first index >= i of s that holds a digit, 0 when there is none
FirstDigit(s, i) ==
  IF \E k \in i..Len(s) : IsDigit(At(s, k))
    THEN CHOOSE k \in i..Len(s) : IsDigit(At(s, k)) /\ \A j \in i..(k - 1) : ~IsDigit(At(s, j))
    ELSE 0

\* The first index >= i of s that holds neither a digit nor ','
DigitsCommasEnd(s, i) ==
  IF \E k \in i..Len(s) : ~(IsDigit(At(s, k)) \/ At(s, k) = ",")
    THEN CHOOSE k \in i..Len(s) :
           /\ ~(IsDigit(At(s, k)) \/ At(s, k) = ",")
           /\ \A j \in i..(k - 1) : IsDigit(At(s, j)) \/ At(s, j) = ","
    ELSE Len(s) + 1

\* One past the end of group 1 when it starts at the digit at index d:
\* [^0-9]* has taken everything before the first digit, so the group is
\* [0-9,]+ then \.? then \d*
GroupEnd(s, d) ==
  LET k == DigitsCommasEnd(s, d)
  IN  IF k <= Len(s) /\ At(s, k) = "." THEN DigitsEnd(s, k + 1) ELSE k

RECURSIVE Groups(_, _, _, _)
\* match.group(1) of the matches re.finditer finds from index pos on, for the
\* matches that hold a digit.  The words are looked for in low, the lower-cased
\* text (re.IGNORECASE).  A match with no digit after the words captures only
\* ',' and '.', which parse to no number, and so does every match after it.
Groups(words, s, low, pos) ==
  IF \E i \in pos..Len(s) : WordsEnd(words, 1, low, i) # 0
    THEN LET i == CHOOSE i \in pos..Len(s) :
                    /\ WordsEnd(words, 1, low, i) # 0
                    /\ \A j \in pos..(i - 1) : WordsEnd(words, 1, low, j) = 0
             d == FirstDigit(s, WordsEnd(words, 1, low, i))
         IN  IF d = 0 THEN <<>>
             ELSE <<SubSeq(s, d, GroupEnd(s, d) - 1)>>
                    \o Groups(words, s, low, GroupEnd(s, d))
    ELSE <<>>

RECURSIVE GroupCandidates(_, _)
\* The qualifying amounts of one pattern's matches, at the pattern's priority
GroupCandidates(groups, priority) ==
  IF groups = <<>> THEN <<>>
  ELSE (IF Qualifies(parse_amount_with_currency(Head(groups)))
          THEN <<Candidate(parse_amount_with_currency(Head(groups)), priority)>>
          ELSE <<>>) \o GroupCandidates(Tail(groups), priority)

RECURSIVE PatternCandidates(_, _, _)
\* Lines 197-201 on the text s, low its lower case: the candidates of patterns
\* p.., in pattern then match order
PatternCandidates(s, low, p) ==
  IF p > Len(TOTAL_PATTERNS) THEN <<>>
  ELSE GroupCandidates(Groups(TOTAL_PATTERNS[p].words, s, low, 1), TOTAL_PATTERNS[p].priority)
         \o PatternCandidates(s, low, p + 1)

\* Lines 197-201 on all_text
RegexCandidates(s) == PatternCandidates(s, Lower(s), 1)

\* The priority under which the regex fallback is used (line 186)
GoodMatchPriority == 5

\* The regex fallback used whatever was found before
UseRegexAlways(priority) == TRUE

\* Line 186: if best_priority < 5
UseRegexFallback(priority) == priority < GoodMatchPriority

-----------------------------------------------------------------------------
(* textract_modules/config.py: SUMMARY_INDICATORS *)

SUMMARY_INDICATORS ==
  <<"subtotal", "sub total", "sub-total", "sub_total", "total", "grand total",
    "final total", "net total", "gross total", "vat", "tax", "vat 19%", "sales tax",
    "discount", "adjustment", "fee discount", "balance", "amount due", "total due",
    "fees and disbursements", "gross amount", "net amount", "incl. vat",
    "including vat", "excl. vat", "adjusted fees", "total adjusted">>

-----------------------------------------------------------------------------
(* textract_modules/utils.py: is_summary_row *)

RECURSIVE JoinCells(_)
\* " ".join(row)
JoinCells(row) ==
  IF row = <<>> THEN ""
  ELSE IF Len(row) = 1 THEN row[1]
  ELSE row[1] \o " " \o JoinCells(Tail(row))

\* any(indicator in t for indicator in SUMMARY_INDICATORS)
HasSummaryIndicator(t) ==
  \E k \in 1..Len(SUMMARY_INDICATORS) : Contains(SUMMARY_INDICATORS[k], t)

\* The summary test made on the first cell only
is_summary_first_cell(row_data) == row_data # <<>> /\ HasSummaryIndicator(Lower(row_data[1]))

\* The summary test made on the cells after the first
is_summary_tail(row_data) == row_data # <<>> /\ HasSummaryIndicator(Lower(JoinCells(Tail(row_data))))

\* is_summary_row(row_data)
is_summary_row(row_data) == HasSummaryIndicator(Lower(JoinCells(row_data)))

-----------------------------------------------------------------------------
(* textract_modules/textract_client.py: extract_line_items_from_tables *)

\* max(S) of a non-empty set of integers
Max(S) == CHOOSE m \in S : \A x \in S : x <= m

RECURSIVE Sorted(_)
\* sorted(S) of a set of integers
Sorted(S) ==
  IF S = {} THEN <<>>
  ELSE LET m == CHOOSE m \in S : \A x \in S : m <= x
       IN  <<m>> \o Sorted(S \ {m})

\* Lines 506-511: the rows of the page by ascending row index, every row max_cols wide
Materialize(rd) ==
  LET max_cols == Max({Max(DOMAIN rd[r]) : r \in DOMAIN rd})
      keys     == Sorted(DOMAIN rd)
  IN  [i \in 1..Len(keys) |->
        [c \in 1..max_cols |-> IF c \in DOMAIN rd[keys[i]] THEN rd[keys[i]][c] ELSE ""]]

\* The rows the tables of the pages are made of
RowPool ==
  { <<"Description", "Qty", "Rate", "Amount">>,
    <<"", "Hours", "Rate", "">>,
    <<"Consulting", "10", "100.00", "1,000.00">>,
    <<"Subtotal", "", "", "1,000.00">>,
    <<"", "", "VAT", "19.00">>,
    <<"Travel", "2", "", "n/a">>,
    <<"", "", "", "">> }

\* The cell texts of the tables
CellTexts == {r[c] : r \in RowPool, c \in 1..4}

\* match_header_enhanced on every cell text, computed once
MatchedField == [cell \in CellTexts |-> match_header_enhanced(Str(cell))]

\* [match_header_enhanced(cell) for cell in row]
HeaderMatches(row) == [c \in 1..Len(row) |-> MatchedField[row[c]]]

\* sum(1 for h in header_matches if h is not None)
MatchCount(row) == Cardinality({c \in 1..Len(row) : HeaderMatches(row)[c] # None})

\* The number of rows looked at for a header with 2 matches (line 525)
HeaderScanRows == 4

\* The matches a header candidate needs (line 530)
MinHeaderMatches == 2

\* The number of rows looked at by the relaxed search, rows[:3] (line 536)
RelaxedScanRows == 3

Min2(a, b) == IF a < b THEN a ELSE b

\* Lines 524-531: the 0-based indexes of the rows put in potential_headers
StrictHeaders(rs) ==
  {i \in 0..(Min2(HeaderScanRows, Len(rs)) - 1) : MatchCount(rs[i + 1]) >= MinHeaderMatches}

HEADER_HINTS == {"service", "description", "rate", "price", "amount", "total", "qty", "hours"}

\* The relaxed search over as many rows as the search for 2 matches looks at
RelaxedHeadersOfFour(rs) ==
  {i \in 0..(Min2(HeaderScanRows, Len(rs)) - 1) :
     /\ \E word \in HEADER_HINTS : Contains(word, Lower(JoinCells(rs[i + 1])))
     /\ MatchCount(rs[i + 1]) >= 1}

\* Lines 536-545: the rows the relaxed search puts in potential_headers
RelaxedHeaders(rs) ==
  {i \in 0..(Min2(RelaxedScanRows, Len(rs)) - 1) :
     /\ \E word \in HEADER_HINTS : Contains(word, Lower(JoinCells(rs[i + 1])))
     /\ MatchCount(rs[i + 1]) >= 1}

\* potential_headers when line 552 is reached
PotentialHeaders(rs) == IF StrictHeaders(rs) # {} THEN StrictHeaders(rs) ELSE RelaxedHeaders(rs)

\* The choice of the candidate with the most matches, the latest on a tie
LatestBestHeader(rs, cands) ==
  CHOOSE i \in cands : \A j \in cands :
    \/ MatchCount(rs[j + 1]) < MatchCount(rs[i + 1])
    \/ MatchCount(rs[j + 1]) = MatchCount(rs[i + 1]) /\ j <= i

\* Line 552: max(potential_headers, key=lambda x: (x[2], -x[0]))
BestHeader(rs, cands) ==
  CHOOSE i \in cands : \A j \in cands :
    \/ MatchCount(rs[j + 1]) < MatchCount(rs[i + 1])
    \/ MatchCount(rs[j + 1]) = MatchCount(rs[i + 1]) /\ i <= j

\* float(cell_value) for a text in which the amount parser found no number:
\* only the spellings of infinity and nan are accepted
FloatOfWord(cell) ==
  LET w    == Lower(Strip(cell))
      body == IF w # "" /\ Head(w) \in {"+", "-"} THEN Tail(w) ELSE w
  IN  IF body \in {"inf", "infinity", "nan"}
        THEN [kind |-> "float", str |-> body, neg |-> (w # "" /\ Head(w) = "-"),
              num |-> 0, scale |-> 0]
        ELSE None

\* The state of the loop over the cells of a row
NoFields == [item |-> <<>>, meaningful |-> FALSE, aborted |-> FALSE]

\* The assignment that keeps the value a key already has
SetKeyOnce(item, key, value) ==
  [k \in DOMAIN item \cup {key} |-> IF k = key /\ k \notin DOMAIN item THEN value ELSE item[k]]

\* line_item[key] = value
SetKey(item, key, value) ==
  [k \in DOMAIN item \cup {key} |-> IF k = key THEN value ELSE item[k]]

\* The cell step with every price or amount counted as meaningful data
CellStepAnyPrice(st, fld, cell_value) ==
  IF fld = "description"
    THEN IF HasSummaryIndicator(Lower(cell_value))
           THEN [st EXCEPT !.meaningful = FALSE, !.aborted = TRUE]
           ELSE [st EXCEPT !.item = SetKey(st.item, "Description", Str(cell_value)),
                           !.meaningful = TRUE]
  ELSE IF fld = "quantity"
    THEN IF IsNumber(parse_amount_with_currency(cell_value).value)
           THEN [st EXCEPT !.item = SetKey(st.item, "Quantity",
                                           parse_amount_with_currency(cell_value).value),
                           !.meaningful = TRUE]
         ELSE IF FloatOfWord(cell_value) # None
           THEN [st EXCEPT !.item = SetKey(st.item, "Quantity", FloatOfWord(cell_value)),
                           !.meaningful = TRUE]
         ELSE st
  ELSE IF fld = "unitprice"
    THEN [st EXCEPT !.item = SetKey(st.item, "UnitPrice", parse_amount_with_currency(cell_value)),
                    !.meaningful = TRUE]
  ELSE [st EXCEPT !.item = SetKey(st.item, "Amount", parse_amount_with_currency(cell_value)),
                  !.meaningful = TRUE]

\* Lines 584-624: one cell of a mapped column, not empty after .strip()
CellStep(st, fld, cell_value) ==
  IF fld = "description"
    THEN IF HasSummaryIndicator(Lower(cell_value))
           THEN [st EXCEPT !.meaningful = FALSE, !.aborted = TRUE]
           ELSE [st EXCEPT !.item = SetKey(st.item, "Description", Str(cell_value)),
                           !.meaningful = TRUE]
  ELSE IF fld = "quantity"
    THEN LET qty_info == parse_amount_with_currency(cell_value)
         IN  IF IsNumber(qty_info.value)
               THEN [st EXCEPT !.item = SetKey(st.item, "Quantity", qty_info.value),
                               !.meaningful = TRUE]
             ELSE IF FloatOfWord(cell_value) # None
               THEN [st EXCEPT !.item = SetKey(st.item, "Quantity", FloatOfWord(cell_value)),
                               !.meaningful = TRUE]
             ELSE st
  ELSE IF fld = "unitprice"
    THEN LET price_info == parse_amount_with_currency(cell_value)
         IN  [st EXCEPT !.item = SetKey(st.item, "UnitPrice", price_info),
                        !.meaningful = st.meaningful \/ IsNumber(price_info.value)]
  ELSE LET amt == parse_amount_with_currency(cell_value)
       IN  [st EXCEPT !.item = SetKey(st.item, "Amount", amt),
                      !.meaningful = st.meaningful \/ IsNumber(amt.value)]

RECURSIVE CellLoop(_, _, _, _)
\* Lines 573-624: the loop over the cells i.. of a row, left at the break
CellLoop(row, hs, i, st) ==
  IF i > Len(row) \/ st.aborted THEN st
  ELSE IF i > Len(hs) \/ hs[i] = None \/ Strip(row[i]) = ""
    THEN CellLoop(row, hs, i + 1, st)
  ELSE CellLoop(row, hs, i + 1, CellStep(st, hs[i].str, Strip(row[i])))

\* not any(cell.strip() for cell in row)
IsBlankRow(row) == \A c \in 1..Len(row) : Strip(row[c]) = ""

-----------------------------------------------------------------------------
(* textract_modules/textract_client.py: the query override of parse_extracted_data *)

TOTAL_QUESTION == "What is the total amount?"

\* Lines 717-722: query_map, question -> field of parsed
query_map ==
  [question \in {"What is the invoice number?", "What is the invoice date?",
                 TOTAL_QUESTION, "What is the payment terms?"} |->
     CASE question = "What is the invoice number?" -> "InvoiceNumber"
       [] question = "What is the invoice date?"   -> "InvoiceDate"
       [] question = TOTAL_QUESTION                -> "InvoiceTotal"
       [] question = "What is the payment terms?"  -> "PaymentTerms"]

\* The test made when a missing answer alone counts as no answer
HasAnswerKey(answer) == answer # None

\* The truth value of answer: None and "" are false
Truthy(answer) == answer # None /\ answer.str # ""

\* Line 727: q_text in query_map and answer
Overrides(q_text, answer) == q_text \in DOMAIN query_map /\ Truthy(answer)

-----------------------------------------------------------------------------
(* The amount parser applied to bounded texts *)

MaxTextLen == 5

AmountAlphabet == {"1", "2", ".", ",", "$", " "}

RECURSIVE TextsUpTo(_, _)
\* Every text of at most n characters of the alphabet
TextsUpTo(alphabet, n) ==
  IF n = 0 THEN {""}
  ELSE LET shorter == TextsUpTo(alphabet, n - 1)
       IN  shorter \cup {s \o c : s \in shorter, c \in alphabet}

ExampleTexts ==
  {"1.234,56", "€ 1.250,00", "1.234.567", "1.234.56", "45.00", "1,000.00", "$500.00",
   "-12.5", "1.2.x3", "12.5 %", "n/a", "¥500", "1.234.56 ¥", "₹ 1.2.3", "£1.234.56"}

AmountTexts == TextsUpTo(AmountAlphabet, MaxTextLen) \cup ExampleTexts

NoAmount == Amount(None, "", "")

\* The strings of the states that hold a currency symbol outside ASCII: the
\* examples, what the two parsers format for them, and the symbols
SymbolStrings ==
  ExampleTexts
    \cup {parse_amount_with_currency(t).formatted : t \in ExampleTexts}
    \cup {legacy_parse_amount_with_currency(t).formatted : t \in ExampleTexts}
    \cup {CURRENCY_SYMBOLS[i] : i \in 1..Len(CURRENCY_SYMBOLS)}

\* The characters of a string of a state: a string of SymbolStrings is read from
\* the definitions of the module, where its symbols are the ones of the source
AsWritten(s) == IF s \in SymbolStrings THEN CHOOSE u \in SymbolStrings : u = s ELSE s

IdleAmount == text = "" /\ amount_info = NoAmount /\ legacy_info = NoAmount

IdleHeader == header_text = None /\ field = None

IdleTable ==
  /\ pages_done = {} /\ rows_dict = <<>> /\ rows = <<>> /\ headers = <<>>
  /\ header_row_idx = 0 /\ row_idx = 0 /\ all_line_items = <<>>

IdleQuery == parsed = <<>> /\ queries = <<>> /\ q_idx = 0

IdleBatch ==
  /\ max_parallel = 0 /\ pdf_files = 0 /\ submitted = 0 /\ task = <<>> /\ job = <<>>
  /\ elapsed = <<>> /\ got = <<>> /\ results = <<>> /\ cur = 0 /\ collected = {}
  /\ all_results = <<>> /\ all_parsed = <<>> /\ final_outputs = <<>>

IdleOrder == blocks = <<>> /\ b_idx = 0 /\ tables = <<>> /\ t_idx = 0 /\ origins = <<>>

IdleForms == pipeline = "" /\ key_blocks = <<>> /\ k_idx = 0 /\ forms = <<>>

IdleSync ==
  /\ run = 0 /\ local_files = {} /\ bucket = {} /\ metadata_file = <<>> /\ sync_metadata = <<>>
  /\ s3_files = <<>> /\ todo = {} /\ uploaded = {} /\ skipped = {} /\ deleted = {}
  /\ call_failed = FALSE

IdleFolder == IdleBatch /\ IdleOrder /\ IdleForms /\ IdleSync

IdleTotal ==
  /\ kv_pairs = <<>> /\ table_totals = <<>> /\ all_text = ""
  /\ best_total = None /\ best_priority = 0 /\ table_candidates = <<>> /\ total = None

InitAmount ==
  /\ pc = "parse"
  /\ text \in AmountTexts
  /\ amount_info = NoAmount /\ legacy_info = NoAmount
  /\ IdleHeader /\ IdleTotal /\ IdleTable /\ IdleQuery /\ IdleFolder

ParseAmount ==
  /\ pc = "parse"
  /\ amount_info' = parse_amount_with_currency(AsWritten(text))
  /\ pc' = "parsed"
  /\ UNCHANGED <<text, legacy_info, headerVars, totalVars, tableVars, queryVars, folderVars>>

\* The same text given to parse_amount_with_currency of invoice_processor.py
ParseAmountLegacy ==
  /\ pc = "parsed"
  /\ legacy_info' = legacy_parse_amount_with_currency(AsWritten(text))
  /\ pc' = "both"
  /\ UNCHANGED <<text, amount_info, headerVars, totalVars, tableVars, queryVars, folderVars>>

NextAmount == ParseAmount \/ ParseAmountLegacy

SpecAmount == InitAmount /\ [][NextAmount]_vars

-----------------------------------------------------------------------------
(* Properties of the amount parser, under SpecAmount *)

\* t is digits in groups of three separated by '.', then ',' and two digits
EuropeanShape(t) ==
  LET n == Len(t) - 3
  IN  /\ n >= 1
      /\ At(t, n + 1) = ","
      /\ IsDigit(At(t, n + 2)) /\ IsDigit(At(t, n + 3))
      /\ IsDigit(At(t, 1))
      /\ \A i \in 1..n : IF (n - i) % 4 = 3 THEN At(t, i) = "." ELSE IsDigit(At(t, i))

\* The number a European text denotes: its digits, the last two after the point
EuropeanValue(t) ==
  LET d == Replace(Replace(t, ".", ""), ",", "")
  IN  ToFloat(SubSeq(d, 1, Len(d) - 2) \o "." \o SubSeq(d, Len(d) - 1, Len(d)))

\* C2: a comma-decimal amount is parsed to its European value: "1.234,56"
\* gives 1234.56, "€ 1.250,00" gives currency "€" and value 1250.0, and every
\* text of '.'-separated thousands followed by ',' and two digits gives the
\* number with that decimal part.
C2_EuropeanAmounts ==
  pc = "parsed" =>
    /\ text = "1.234,56" => NumEq(amount_info.value, Float(FALSE, 123456, 2))
    /\ text = "€ 1.250,00" =>
         amount_info.currency = "€" /\ NumEq(amount_info.value, Float(FALSE, 1250, 0))
    /\ EuropeanShape(text) => NumEq(amount_info.value, EuropeanValue(text))

RECURSIVE DropDotsFrom(_, _, _)
\* s[i..] without its '.', except the '.' at index keep
DropDotsFrom(s, i, keep) ==
  IF i > Len(s) THEN ""
  ELSE (IF At(s, i) = "." /\ i # keep THEN "" ELSE At(s, i)) \o DropDotsFrom(s, i + 1, keep)

\* What the claim says is searched for a number: with more than one '.', every
\* '.' is dropped unless exactly two characters follow the last one, which then stays
DotsAsClaimed(c) ==
  IF Count(c, ".") > 1
    THEN DropDotsFrom(c, 1,
           IF /\ Len(c) >= 3 /\ At(c, Len(c) - 2) = "."
              /\ At(c, Len(c) - 1) # "." /\ At(c, Len(c)) # "."
             THEN Len(c) - 2 ELSE 0)
    ELSE c

\* C3: after the currency symbols and commas are removed, a text with more
\* than one '.' loses every '.' unless its last '.' is followed by exactly two
\* characters, and then keeps only that one; a text with at most one '.' is
\* parsed as it is.  "1.234.567" gives 1234567, "1.234.56" gives 1234.56 and
\* "45.00" gives 45.
C3_MultiDot ==
  pc = "parsed" /\ text # "" =>
    /\ LET m == SearchNumber(DotsAsClaimed(StripSymbolsAndCommas(AsWritten(text))))
       IN  IF m = "" THEN amount_info.value = Str(text)
           ELSE NumEq(amount_info.value, ToFloat(m))
    /\ text = "1.234.567" => NumEq(amount_info.value, Float(FALSE, 1234567, 0))
    /\ text = "1.234.56" => NumEq(amount_info.value, Float(FALSE, 123456, 2))
    /\ text = "45.00" => NumEq(amount_info.value, Float(FALSE, 45, 0))

\* A text with three '.' whose last part has two characters has been parsed
C3_Witness ==
  /\ pc = "parsed"
  /\ Count(StripSymbolsAndCommas(AsWritten(text)), ".") = 3
  /\ At(text, Len(text) - 2) = "."
  /\ IsNumber(amount_info.value) /\ amount_info.value.scale = 2

\* The text holds no digit, so that no numeric substring is found in it
NoNumericSubstring(t) == \A i \in 1..Len(t) : ~IsDigit(At(t, i))

\* C11: for a non-empty text with no numeric substring the parser returns the
\* text itself as value, the currency symbol detected in the text (if any)
\* as currency, and the text as formatted.
C11_ParseFailureLossless ==
  (pc = "parsed" /\ text # "" /\ NoNumericSubstring(text))
    => amount_info = Amount(Str(text), DetectCurrency(AsWritten(text)), text)

\* C12 as stated: whenever the parser gave a number for the text, it gives the
\* same number and the same currency for the formatted string it returned.
C12_ReparseIdempotent ==
  (pc = "parsed" /\ IsNumber(amount_info.value))
    => /\ NumEq(parse_amount_with_currency(AsWritten(amount_info.formatted)).value, amount_info.value)
       /\ parse_amount_with_currency(AsWritten(amount_info.formatted)).currency = amount_info.currency

\* C12, amended: whenever the parser gave a number of at most two decimal
\* places for the text, it gives the same number, the same currency and the
\* same formatted string for the formatted string it returned.
C12_ReparseTwoDecimals ==
  (pc = "parsed" /\ IsNumber(amount_info.value) /\ amount_info.value.scale <= 2)
    => /\ NumEq(parse_amount_with_currency(AsWritten(amount_info.formatted)).value, amount_info.value)
       /\ parse_amount_with_currency(AsWritten(amount_info.formatted)).currency = amount_info.currency
       /\ parse_amount_with_currency(AsWritten(amount_info.formatted)).formatted = amount_info.formatted

\* A text with a currency symbol, a thousands separator and two decimal places
\* was parsed, and its formatted string parses to the same amount
C12_Witness ==
  /\ pc = "parsed"
  /\ text = "$500.00"
  /\ amount_info = Amount(Float(FALSE, 500, 0), "$", "$ 500.00")
  /\ parse_amount_with_currency(AsWritten(amount_info.formatted)) = amount_info

\* The values of the two dictionaries are the same: equal numbers, or the same text
SameValue(a, b) ==
  IF IsNumber(a.value) /\ IsNumber(b.value) THEN NumEq(a.value, b.value) ELSE a.value = b.value

\* The formatted strings hold the same number, with the currency symbol before it
\* in a and after it in b
SameUpToPlacement(a, b) ==
  IF IsNumber(a.value) /\ a.currency # ""
    THEN \E f \in {FormatFloat(a.value)} :
           /\ a.formatted = AsWritten(a.currency) \o " " \o f
           /\ b.formatted = f \o " " \o AsWritten(a.currency)
    ELSE a.formatted = b.formatted

\* C24: for every text the parser of utils.py and the parser of invoice_processor.py
\* return the same value and the same currency, and formatted strings that differ
\* only in the currency symbol standing before or after the number.
C24_ParsersAgree ==
  pc = "both"
  => /\ SameValue(amount_info, legacy_info)
     /\ amount_info.currency = legacy_info.currency
     /\ SameUpToPlacement(amount_info, legacy_info)

\* The two parsers agree on every text without '¥' and '₹', the symbols line 120
\* of invoice_processor.py leaves in the text
C24_AgreeOnStrippedSymbols ==
  (pc = "both" /\ ~Contains("¥", AsWritten(text)) /\ ~Contains("₹", AsWritten(text)))
  => /\ SameValue(amount_info, legacy_info)
     /\ amount_info.currency = legacy_info.currency
     /\ SameUpToPlacement(amount_info, legacy_info)

\* "1.234.56 ¥" is 1234.56 for utils.py and 123456.0 for invoice_processor.py
C24_Divergence ==
  /\ pc = "both"
  /\ text = "1.234.56 ¥"
  /\ NumEq(amount_info.value, Float(FALSE, 123456, 2))
  /\ NumEq(legacy_info.value, Float(FALSE, 123456, 0))

-----------------------------------------------------------------------------
(* The header matcher applied to bounded header cells *)

MaxHeaderWords == 2

HeaderWords ==
  {"Hrs", "Qty", "Unit", "Cost", "Rate", "Amount", "Random", "Label", "Total", "Item"}

HeaderSeparators == {" ", "/", "-", "_", ". ", ""}

RECURSIVE HeaderPhrases(_)
\* Every header of 1..n words joined by separators
HeaderPhrases(n) ==
  IF n <= 1 THEN HeaderWords
  ELSE LET shorter == HeaderPhrases(n - 1)
       IN  shorter \cup {p \o sep \o w : p \in shorter, sep \in HeaderSeparators, w \in HeaderWords}

HeaderInputs ==
  {Str(s) : s \in HeaderPhrases(MaxHeaderWords) \cup {"", "  ", "Hrs/Qty", "Unit Cost", "Random Label"}}
    \cup {None, Float(FALSE, 10, 0)}

InitHeader ==
  /\ pc = "match"
  /\ header_text \in HeaderInputs
  /\ field = None
  /\ IdleAmount /\ IdleTotal /\ IdleTable /\ IdleQuery /\ IdleFolder

MatchHeader ==
  /\ pc = "match"
  /\ field' = match_header_enhanced(header_text)
  /\ pc' = "matched"
  /\ UNCHANGED <<header_text, amountVars, totalVars, tableVars, queryVars, folderVars>>

NextHeader == MatchHeader

SpecHeader == InitHeader /\ [][NextHeader]_vars

-----------------------------------------------------------------------------
(* Properties of the header matcher, under SpecHeader *)

\* The fields whose synonym list has a synonym equal to the cleaned text, in
\* it as a whole word, or in it as a substring, by position in the order
\* description, quantity, unitprice, amount
MatchingLists(clean) ==
  LET order == <<"description", "quantity", "unitprice", "amount">>
  IN  {i \in 1..4 : \E j \in 1..Len(HEADER_PATTERNS[order[i]]) :
         LET syn == HEADER_PATTERNS[order[i]][j]
         IN  clean = syn \/ WholeWord(syn, clean) \/ Contains(syn, clean)}

\* C10: for a string, match_header_enhanced returns the field of the first
\* synonym list, in the order description, quantity, unitprice, amount, that
\* has a synonym matching the cleaned text, and no match when there is none
\* or the input is null or not a string; "Hrs/Qty" gives quantity, "Unit
\* Cost" gives unitprice, "Random Label" gives no match.
C10_FirstSynonymList ==
  pc = "matched" =>
    /\ IF header_text.kind = "str"
         THEN LET hits == MatchingLists(CleanHeader(header_text.str))
              IN  IF hits = {} THEN field = None
                  ELSE field = Str(<<"description", "quantity", "unitprice", "amount">>[
                                 CHOOSE i \in hits : \A k \in hits : i <= k])
         ELSE field = None
    /\ header_text = Str("Hrs/Qty") => field = Str("quantity")
    /\ header_text = Str("Unit Cost") => field = Str("unitprice")
    /\ header_text = Str("Random Label") => field = None

\* A header that two synonym lists match has been given the first list's field
C10_Witness ==
  /\ pc = "matched"
  /\ header_text.kind = "str"
  /\ Cardinality(MatchingLists(CleanHeader(header_text.str))) >= 2
  /\ field = Str("unitprice")

\* The positions, in declaration order, of the fields with a synonym that is a
\* substring of the cleaned text
SubstringLists(clean) ==
  {i \in 1..Len(HEADER_FIELDS) :
     \E j \in 1..Len(HEADER_PATTERNS[HEADER_FIELDS[i]]) :
       Contains(HEADER_PATTERNS[HEADER_FIELDS[i]][j], clean)}

\* The positions of the fields with a synonym equal to the cleaned text or in it
\* as a whole word
WordLists(clean) ==
  {i \in 1..Len(HEADER_FIELDS) :
     \E j \in 1..Len(HEADER_PATTERNS[HEADER_FIELDS[i]]) :
       \/ clean = HEADER_PATTERNS[HEADER_FIELDS[i]][j]
       \/ WholeWord(HEADER_PATTERNS[HEADER_FIELDS[i]][j], clean)}

\* C29: the field returned for a string is the first field, in declaration order,
\* with a synonym that is a substring of the cleaned text, and none when there is
\* no such field: the tests of equality and whole word decide nothing.
C29_SubstringDecides ==
  (pc = "matched" /\ header_text.kind = "str")
  => LET hits == SubstringLists(CleanHeader(header_text.str))
     IN  IF hits = {} THEN field = None
         ELSE field = Str(HEADER_FIELDS[CHOOSE i \in hits : \A k \in hits : i <= k])

\* "Cost_Qty" holds synonyms of three fields as substrings and none as a whole
\* word (the underscore joins the two words): it is given quantity, the first
C29_Witness ==
  /\ pc = "matched"
  /\ header_text = Str("Cost_Qty")
  /\ WordLists(CleanHeader(header_text.str)) = {}
  /\ SubstringLists(CleanHeader(header_text.str)) = {2, 3, 4}
  /\ field = Str("quantity")

-----------------------------------------------------------------------------
(* find_invoice_total applied to bounded key-value pairs, table rows and texts *)

MaxKVPairs == 2

MaxTableTotals == 2

\* Form fields as parse_extracted_data stores them: lower-cased, trimmed key
\* and a non-empty value
KVPool ==
  { <<"grand total", "$500.00">>, <<"net amount", "90.00">>, <<"subtotal", "100.00">>,
    <<"total (excl)", "80.00">>, <<"total eur", "0.00">>, <<"balance due", "-5.00">>,
    <<"amount due", "n/a">> }

\* Table rows that hold "total", space-joined
TableRowPool ==
  { "total fees and disbursements: $1000.00", "Total Due 300.00", "Total 120.00",
    "Sub Total 0.00" }

TextPool ==
  { "", "Invoice Total: $ 750.00 Grand Total 1,500.00", "total due 0 amount due 20.00",
    "grand total: n/a", "Final Total 30.00 Grand Total 40.00" }

RECURSIVE OrderedChoices(_, _)
\* The sequences of at most n distinct elements of pool
OrderedChoices(pool, n) ==
  IF n = 0 THEN {<<>>}
  ELSE LET shorter == OrderedChoices(pool, n - 1)
           longer  == {<<q, x>> \in shorter \X pool : \A i \in 1..Len(q) : q[i] # x}
       IN  shorter \cup {Append(qx[1], qx[2]) : qx \in longer}

\* table_totals[row_text] = " ".join(cells), row_text its lower case
TableTotalsOf(joined) == [i \in 1..Len(joined) |-> <<Lower(joined[i]), joined[i]>>]

InitTotal ==
  /\ pc = "tierA"
  /\ kv_pairs \in OrderedChoices(KVPool, MaxKVPairs)
  /\ table_totals \in {TableTotalsOf(joined) : joined \in OrderedChoices(TableRowPool, MaxTableTotals)}
  /\ all_text \in TextPool
  /\ best_total = None /\ best_priority = 0 /\ table_candidates = <<>> /\ total = None
  /\ IdleAmount /\ IdleHeader /\ IdleTable /\ IdleQuery /\ IdleFolder

\* Lines 130-151
TierA ==
  /\ pc = "tierA"
  /\ LET b == KeepBest(KVCandidates(kv_pairs, 1),
                       [total |-> best_total, priority |-> best_priority])
     IN  best_total' = b.total /\ best_priority' = b.priority
  /\ pc' = "tierB"
  /\ UNCHANGED <<totalInputs, table_candidates, total, amountVars, headerVars,
                 tableVars, queryVars, folderVars>>

\* Lines 153-174
TierBCollect ==
  /\ pc = "tierB"
  /\ table_candidates' = TableCandidates(table_totals, 1)
  /\ pc' = "pick"
  /\ UNCHANGED <<totalInputs, best_total, best_priority, total, amountVars, headerVars,
                 tableVars, queryVars, folderVars>>

\* Lines 176-183
TierBPick ==
  /\ pc = "pick"
  /\ LET b == PickTable(table_candidates, [total |-> best_total, priority |-> best_priority])
     IN  best_total' = b.total /\ best_priority' = b.priority
  /\ pc' = "tierC"
  /\ UNCHANGED <<totalInputs, table_candidates, total, amountVars, headerVars,
                 tableVars, queryVars, folderVars>>

\* Lines 186-205, the regex fallback taken
TierC ==
  /\ pc = "tierC"
  /\ UseRegexFallback(best_priority)
  /\ LET b == KeepBest(RegexCandidates(all_text),
                       [total |-> best_total, priority |-> best_priority])
     IN  best_total' = b.total /\ best_priority' = b.priority
  /\ pc' = "return"
  /\ UNCHANGED <<totalInputs, table_candidates, total, amountVars, headerVars,
                 tableVars, queryVars, folderVars>>

\* Line 186, the regex fallback not taken
SkipTierC ==
  /\ pc = "tierC"
  /\ ~UseRegexFallback(best_priority)
  /\ pc' = "return"
  /\ UNCHANGED <<totalInputs, best_total, best_priority, table_candidates, total,
                 amountVars, headerVars, tableVars, queryVars, folderVars>>

\* Line 211
ReturnTotal ==
  /\ pc = "return"
  /\ total' = IF best_total # None THEN best_total ELSE NoAmount
  /\ pc' = "done"
  /\ UNCHANGED <<totalInputs, best_total, best_priority, table_candidates,
                 amountVars, headerVars, tableVars, queryVars, folderVars>>

NextTotal == TierA \/ TierBCollect \/ TierBPick \/ TierC \/ SkipTierC \/ ReturnTotal

SpecTotal == InitTotal /\ [][NextTotal]_vars

\* Form fields whose keys meet the keywords exactly, with a colon, with a term of
\* line 145, or with several keywords at once
KeyPool ==
  { <<"total", "120.00">>, <<"total:", "50.00">>, <<"subtotal", "100.00">>,
    <<"total incl. vat", "119.00">>, <<"amount payable", "70.00">>,
    <<"invoice total", "$200.00">>, <<"total with tax", "n/a">>, <<"net amount", "0.00">> }

\* find_invoice_total on the fields of KeyPool, with at most one table row
InitKeyTotal ==
  /\ pc = "tierA"
  /\ kv_pairs \in OrderedChoices(KeyPool, MaxKVPairs)
  /\ table_totals \in {TableTotalsOf(joined) : joined \in {<<>>, <<"Total 120.00">>}}
  /\ all_text \in {"", "Final Total 30.00 Grand Total 40.00"}
  /\ best_total = None /\ best_priority = 0 /\ table_candidates = <<>> /\ total = None
  /\ IdleAmount /\ IdleHeader /\ IdleTable /\ IdleQuery /\ IdleFolder

SpecKeyTotal == InitKeyTotal /\ [][NextTotal]_vars

-----------------------------------------------------------------------------
(* extract_line_items_from_tables applied to bounded tables *)

\* The page numbers of the tables dictionary
PageNumbers == {1}

MaxRows == 5

RECURSIVE Tables(_)
\* Every page of at most n rows of the pool, rows and columns numbered from 1
Tables(n) ==
  IF n = 0 THEN {<<>>}
  ELSE LET shorter == Tables(n - 1)
       IN  shorter \cup {Append(t, r) : t \in shorter, r \in RowPool}

\* is_summary_row on every row of the tables, computed once
SummaryRows == {r \in RowPool : is_summary_row(r)}

\* Lines 570-624 on every row of the tables under every header row, computed once
CellLoopResult ==
  [hs \in {HeaderMatches(h) : h \in RowPool}, r \in RowPool |-> CellLoop(r, hs, 1, NoFields)]

InitTable ==
  /\ pc = "page"
  /\ pages_done = {}
  /\ rows_dict = <<>> /\ rows = <<>> /\ headers = <<>>
  /\ header_row_idx = 0 /\ row_idx = 0
  /\ all_line_items = <<>>
  /\ IdleAmount /\ IdleHeader /\ IdleTotal /\ IdleQuery /\ IdleFolder

\* The row of data_rows the loop of line 558 is at
CurrentRow == rows[header_row_idx + 1 + row_idx + 1]

\* Line 500: the next (page, rows_dict) of tables.items()
StartPage ==
  /\ pc = "page"
  /\ \E page \in PageNumbers \ pages_done : pages_done' = pages_done \cup {page}
  /\ rows_dict' \in Tables(MaxRows)
  /\ rows' = <<>> /\ headers' = <<>> /\ header_row_idx' = 0 /\ row_idx' = 0
  /\ pc' = "rows"
  /\ UNCHANGED <<all_line_items, amountVars, headerVars, totalVars, queryVars, folderVars>>

\* Lines 501-503
SkipEmptyPage ==
  /\ pc = "rows"
  /\ DOMAIN rows_dict = {}
  /\ pc' = "page"
  /\ UNCHANGED <<tableVars, amountVars, headerVars, totalVars, queryVars, folderVars>>

\* Lines 505-511
BuildRows ==
  /\ pc = "rows"
  /\ DOMAIN rows_dict # {}
  /\ rows' = Materialize(rows_dict)
  /\ pc' = "header"
  /\ UNCHANGED <<pages_done, rows_dict, headers, header_row_idx, row_idx, all_line_items,
                 amountVars, headerVars, totalVars, queryVars, folderVars>>

\* Lines 519-521
TooFewRows ==
  /\ pc = "header"
  /\ Len(rows) < 2
  /\ pc' = "page"
  /\ UNCHANGED <<tableVars, amountVars, headerVars, totalVars, queryVars, folderVars>>

\* Lines 523-549, no header found
NoHeader ==
  /\ pc = "header"
  /\ Len(rows) >= 2
  /\ PotentialHeaders(rows) = {}
  /\ pc' = "page"
  /\ UNCHANGED <<tableVars, amountVars, headerVars, totalVars, queryVars, folderVars>>

\* Lines 523-556, a header chosen
ChooseHeader ==
  /\ pc = "header"
  /\ Len(rows) >= 2
  /\ PotentialHeaders(rows) # {}
  /\ header_row_idx' = BestHeader(rows, PotentialHeaders(rows))
  /\ headers' = HeaderMatches(rows[header_row_idx' + 1])
  /\ row_idx' = 0
  /\ pc' = "data"
  /\ UNCHANGED <<pages_done, rows_dict, rows, all_line_items,
                 amountVars, headerVars, totalVars, queryVars, folderVars>>

\* Line 558, data_rows exhausted
EndOfRows ==
  /\ pc = "data"
  /\ header_row_idx + 1 + row_idx + 1 > Len(rows)
  /\ pc' = "page"
  /\ UNCHANGED <<tableVars, amountVars, headerVars, totalVars, queryVars, folderVars>>

\* Lines 559-561
SkipBlankRow ==
  /\ pc = "data"
  /\ header_row_idx + 1 + row_idx + 1 <= Len(rows)
  /\ IsBlankRow(CurrentRow)
  /\ row_idx' = row_idx + 1
  /\ UNCHANGED <<pc, pages_done, rows_dict, rows, headers, header_row_idx, all_line_items,
                 amountVars, headerVars, totalVars, queryVars, folderVars>>

\* Lines 565-568
SkipSummaryRow ==
  /\ pc = "data"
  /\ header_row_idx + 1 + row_idx + 1 <= Len(rows)
  /\ ~IsBlankRow(CurrentRow)
  /\ CurrentRow \in SummaryRows
  /\ row_idx' = row_idx + 1
  /\ UNCHANGED <<pc, pages_done, rows_dict, rows, headers, header_row_idx, all_line_items,
                 amountVars, headerVars, totalVars, queryVars, folderVars>>

\* Lines 570-629, the row has meaningful data
AddLineItem ==
  /\ pc = "data"
  /\ header_row_idx + 1 + row_idx + 1 <= Len(rows)
  /\ ~IsBlankRow(CurrentRow)
  /\ CurrentRow \notin SummaryRows
  /\ CellLoopResult[headers, CurrentRow].meaningful
  /\ all_line_items' = Append(all_line_items, CellLoopResult[headers, CurrentRow].item)
  /\ row_idx' = row_idx + 1
  /\ UNCHANGED <<pc, pages_done, rows_dict, rows, headers, header_row_idx,
                 amountVars, headerVars, totalVars, queryVars, folderVars>>

\* Lines 570-631, the row has no meaningful data
DropRow ==
  /\ pc = "data"
  /\ header_row_idx + 1 + row_idx + 1 <= Len(rows)
  /\ ~IsBlankRow(CurrentRow)
  /\ CurrentRow \notin SummaryRows
  /\ ~CellLoopResult[headers, CurrentRow].meaningful
  /\ row_idx' = row_idx + 1
  /\ UNCHANGED <<pc, pages_done, rows_dict, rows, headers, header_row_idx, all_line_items,
                 amountVars, headerVars, totalVars, queryVars, folderVars>>

\* Line 634, tables.items() exhausted
ReturnLineItems ==
  /\ pc = "page"
  /\ pages_done = PageNumbers
  /\ pc' = "done"
  /\ UNCHANGED <<tableVars, amountVars, headerVars, totalVars, queryVars, folderVars>>

NextTable ==
  \/ StartPage \/ SkipEmptyPage \/ BuildRows \/ TooFewRows \/ NoHeader \/ ChooseHeader
  \/ EndOfRows \/ SkipBlankRow \/ SkipSummaryRow \/ AddLineItem \/ DropRow
  \/ ReturnLineItems

SpecTable == InitTable /\ [][NextTable]_vars

-----------------------------------------------------------------------------
(* Properties of find_invoice_total, under SpecTotal *)

\* The highest priority of a list of candidates, 0 for the empty list
TopPriority(cands) ==
  IF cands = <<>> THEN 0
  ELSE LET ps == {cands[i].priority : i \in 1..Len(cands)}
       IN  CHOOSE m \in ps : \A q \in ps : q <= m

\* The amount of the first candidate of the list that has its highest priority
FirstTopAmount(cands) ==
  cands[CHOOSE i \in 1..Len(cands) :
          /\ cands[i].priority = TopPriority(cands)
          /\ \A j \in 1..(i - 1) : cands[j].priority # TopPriority(cands)].amount

\* C4: the table candidate of highest adjusted priority replaces the best
\* key-value candidate only if its priority is strictly greater, and with
\* equal priorities the key-value candidate is kept; for the pair
\* {"grand total": "$500.00"} and the table row "total fees and
\* disbursements: $1000.00" the returned value is 1000.0.
C4_TableReplacesOnlyIfGreater ==
  [][/\ pc = "pick" =>
          IF table_candidates # <<>> /\ TopPriority(table_candidates) > best_priority
            THEN /\ best_priority' = TopPriority(table_candidates)
                 /\ best_total' = FirstTopAmount(table_candidates)
            ELSE best_priority' = best_priority /\ best_total' = best_total
     /\ ( /\ pc = "return"
          /\ kv_pairs = << <<"grand total", "$500.00">> >>
          /\ table_totals = << <<"total fees and disbursements: $1000.00",
                                 "total fees and disbursements: $1000.00">> >> )
          => NumEq(total'.value, Float(FALSE, 1000, 0))
    ]_vars

\* A table candidate with the priority of the key-value candidate has been
\* looked at and the key-value candidate is still the best
C4_Witness ==
  /\ pc = "tierC"
  /\ table_candidates # <<>>
  /\ TopPriority(table_candidates) = best_priority
  /\ best_total # None
  /\ \A i \in 1..Len(table_candidates) : table_candidates[i].amount # best_total

\* C5: the regex fallback is consulted only when the best priority of the
\* key-value and table tiers is below 5; with a best priority of 5 or more
\* the returned total is that candidate whatever all_text holds; when it is
\* consulted, a positive regex match replaces the running best only if its
\* pattern priority is strictly greater.
C5_RegexOnlyBelowFive ==
  [][/\ pc = "tierC" =>
          LET cands == RegexCandidates(all_text)
          IN  IF best_priority < 5 /\ TopPriority(cands) > best_priority
                THEN /\ best_priority' = TopPriority(cands)
                     /\ best_total' = FirstTopAmount(cands)
                ELSE best_priority' = best_priority /\ best_total' = best_total
     /\ pc = "return" /\ best_total # None => total' = best_total
    ]_vars

\* The fallback was skipped although all_text holds a match of higher priority
C5_Witness ==
  /\ pc = "return"
  /\ best_priority >= 5
  /\ TopPriority(RegexCandidates(all_text)) > best_priority

\* C6: find_invoice_total returns an Amount whose value is a number above 0,
\* or the zero-value Amount {value: None, currency: "", formatted: ""}; never a
\* text, zero or a negative value.
C6_PositiveOrZeroAmount ==
  pc = "done" =>
    \/ total = Amount(None, "", "")
    \/ /\ DOMAIN total = {"value", "currency", "formatted"}
       /\ total.value.kind = "float" /\ ~total.value.neg /\ total.value.num > 0

\* Every value on offer was zero, negative or a text, and the zero-value
\* Amount was returned
C6_Witness ==
  /\ pc = "done"
  /\ total = Amount(None, "", "")
  /\ Len(kv_pairs) = 2 /\ Len(table_totals) >= 1
  /\ all_text = "grand total: n/a"

\* The keys and values of the fields of KeyPool as line 132 and line 135 see them
KeyLower == [p \in KeyPool |-> Strip(Lower(p[1]))]

KeyAmount == [p \in KeyPool |-> parse_amount_with_currency(p[2])]

\* The (pair, keyword) hits of Tier A: the keyword is in the key and the value is
\* a positive number
Hits ==
  {h \in (1..Len(kv_pairs)) \X (1..Len(TOTAL_KEYWORDS)) :
     /\ Contains(TOTAL_KEYWORDS[h[2]][1], KeyLower[kv_pairs[h[1]]])
     /\ IsNumber(KeyAmount[kv_pairs[h[1]]].value)
     /\ IsPositive(KeyAmount[kv_pairs[h[1]]].value)}

\* The key without its colons, trimmed
Uncolon == [p \in KeyPool |-> Strip(Replace(KeyLower[p], ":", ""))]

\* The key holds a term of tax inclusion
Inclusive ==
  {p \in KeyPool : \E term \in {"incl", "including", "with vat", "with tax"} :
                      Contains(term, KeyLower[p])}

\* The adjusted priority of a hit as the claim states it
Adjusted(h) ==
  TOTAL_KEYWORDS[h[2]][2]
    + (IF Uncolon[kv_pairs[h[1]]] = TOTAL_KEYWORDS[h[2]][1] THEN 5 ELSE 0)
    + (IF kv_pairs[h[1]] \in Inclusive THEN 3 ELSE 0)

\* g comes before h in map-and-keyword iteration order, or is h
NotAfter(g, h) == g[1] < h[1] \/ (g[1] = h[1] /\ g[2] <= h[2])

\* C22: the result of Tier A is the hit of highest adjusted priority (base
\* priority, plus 5 for a key equal to the keyword once its colon is stripped, plus
\* 3 for a key with a term of tax inclusion), the first in iteration order among
\* the highest; without hits there is no result.
C22_TierA ==
  (pc \in {"tierB", "pick"})
  => IF Hits = {}
       THEN best_total = None /\ best_priority = 0
       ELSE \E h \in Hits :
              /\ best_total = KeyAmount[kv_pairs[h[1]]]
              /\ best_priority = Adjusted(h)
              /\ \A g \in Hits :
                   (Adjusted(g) < Adjusted(h)) \/ (Adjusted(g) = Adjusted(h) /\ NotAfter(h, g))

\* Two keys tie at priority 6, one of them through its stripped colon, and the
\* first pair gave the result
C22_Witness ==
  /\ pc = "tierB"
  /\ Len(kv_pairs) = 2
  /\ kv_pairs[1][1] = "total:" /\ kv_pairs[2][1] = "total"
  /\ best_priority = 6
  /\ best_total = KeyAmount[kv_pairs[1]]

\* The terms of tax inclusion add 3 to the priority of every keyword of the key
C22_InclusiveWitness ==
  /\ pc = "tierB"
  /\ Len(kv_pairs) = 1 /\ kv_pairs[1][1] = "total incl. vat"
  /\ best_priority = 17

\* The keys of kv_pairs in iteration order
KeysOf(kv) == [i \in 1..Len(kv) |-> kv[i][1]]

\* Tier A is over and the later tiers have not touched its result
AfterTierA == pc \in {"tierB", "pick"}

\* C27: with the two pairs "subtotal": a and "total": b alone, in either order,
\* "subtotal" obtains priority 7 and "total" priority 6, and without table totals
\* and regex match the total returned is the subtotal amount a.
C27_SubtotalWins ==
  /\ (AfterTierA /\ KeysOf(kv_pairs) = <<"total">>) => best_priority = 6
  /\ (AfterTierA /\ KeysOf(kv_pairs) = <<"subtotal">>) => best_priority = 7
  /\ (AfterTierA /\ KeysOf(kv_pairs) \in {<<"subtotal", "total">>, <<"total", "subtotal">>})
       => best_priority = 7 /\ best_total = KeyAmount[<<"subtotal", "100.00">>]
  /\ (/\ pc = "done"
      /\ KeysOf(kv_pairs) \in {<<"subtotal", "total">>, <<"total", "subtotal">>}
      /\ table_totals = <<>> /\ all_text = "")
       => /\ total = KeyAmount[<<"subtotal", "100.00">>]
          /\ total.value = Float(FALSE, 100, 0)

\* "total" came first and the subtotal amount was returned all the same
C27_Witness ==
  /\ pc = "done"
  /\ KeysOf(kv_pairs) = <<"total", "subtotal">>
  /\ table_totals = <<>> /\ all_text = ""
  /\ total = KeyAmount[<<"subtotal", "100.00">>]

-----------------------------------------------------------------------------
(* Properties of extract_line_items_from_tables, under SpecTable *)

\* The 1-based index in rows of the data row the loop is at
CurrentIndex == header_row_idx + 1 + row_idx + 1

\* Some summary-indicator phrase is a substring of the space-joined, lower-cased cells
HasSummaryPhrase(row) ==
  \E k \in 1..Len(SUMMARY_INDICATORS) : Contains(SUMMARY_INDICATORS[k], Lower(JoinCells(row)))

\* C1: for the single-page table made of the header ["Description","Qty","Rate",
\* "Amount"], the data row ["Consulting","10","100.00","1,000.00"] and the summary
\* row ["Subtotal","","","1,000.00"], the returned list has exactly one item, with
\* Description "Consulting", Quantity 10.0, UnitPrice.value 100.0 and
\* Amount.value 1000.0.
C1_EndToEnd ==
  (/\ pc = "done"
   /\ rows_dict = << <<"Description", "Qty", "Rate", "Amount">>,
                     <<"Consulting", "10", "100.00", "1,000.00">>,
                     <<"Subtotal", "", "", "1,000.00">> >>)
  => /\ Len(all_line_items) = 1
     /\ DOMAIN all_line_items[1] = {"Description", "Quantity", "UnitPrice", "Amount"}
     /\ all_line_items[1]["Description"] = Str("Consulting")
     /\ NumEq(all_line_items[1]["Quantity"], Float(FALSE, 10, 0))
     /\ NumEq(all_line_items[1]["UnitPrice"].value, Float(FALSE, 100, 0))
     /\ NumEq(all_line_items[1]["Amount"].value, Float(FALSE, 1000, 0))

\* The rows of the tables that hold a summary-indicator phrase
RowsWithSummaryPhrase == {r \in RowPool : HasSummaryPhrase(r)}

\* C8: is_summary_row is true of a row exactly when a summary-indicator phrase is a
\* substring of its space-joined, lower-cased cells, and the step taken on a data
\* row of which that is true adds nothing to the line items, numeric cells or not.
C8_SummaryRowsSkipped ==
  [][/\ SummaryRows = RowsWithSummaryPhrase
     /\ (pc = "data" /\ CurrentIndex <= Len(rows) /\ rows[CurrentIndex] \in RowsWithSummaryPhrase)
          => all_line_items' = all_line_items]_vars

\* A summary row with a numeric cell has just been passed, and no item was added
C8_Witness ==
  /\ pc = "data"
  /\ row_idx = 1
  /\ rows[CurrentIndex - 1] = <<"Subtotal", "", "", "1,000.00">>
  /\ NumEq(parse_amount_with_currency(rows[CurrentIndex - 1][4]).value, Float(FALSE, 1000, 0))
  /\ headers = <<Str("description"), Str("quantity"), Str("unitprice"), Str("quantity")>>
  /\ all_line_items = <<>>

\* The number of cells of each row of the tables the header matcher gives a field to
Matched == [r \in RowPool |-> Cardinality({c \in 1..Len(r) : match_header_enhanced(Str(r[c])) # None})]

Matches(row) == Matched[row]

\* The 0-based indexes of the header candidates: rows among the first four with 2 matches
Candidates == {i \in 0..(Len(rows) - 1) : i < 4 /\ Matches(rows[i + 1]) >= 2}

\* A header has been chosen for the page at hand
HeaderChosen == pc = "data" \/ (pc \in {"page", "done"} /\ headers # <<>>)

\* C9: when some of the first four rows has 2 or more matches, the chosen header is
\* one of them, no candidate has more matches, no earlier candidate has as many,
\* and the data rows are the rows after the header: the loop is at one of them
\* until all of them, and no other row, have been taken.
C9_HeaderSelection ==
  (HeaderChosen /\ Candidates # {})
  => /\ header_row_idx \in Candidates
     /\ \A j \in Candidates :
          \/ Matches(rows[j + 1]) < Matches(rows[header_row_idx + 1])
          \/ Matches(rows[j + 1]) = Matches(rows[header_row_idx + 1]) /\ header_row_idx <= j
     /\ row_idx \in 0..(Len(rows) - (header_row_idx + 1))
     /\ Len(all_line_items) <= row_idx
     /\ pc # "data" => row_idx = Len(rows) - (header_row_idx + 1)

\* Rows 1 and 2 are candidates with equal counts, row 0 is none, row 4 has more
\* matches than both, and row 1 is the header
C9_Witness ==
  /\ pc = "data"
  /\ Len(rows) = 5
  /\ Matches(rows[1]) < 2
  /\ Matches(rows[2]) = 2 /\ Matches(rows[3]) = 2
  /\ Matches(rows[5]) = 4
  /\ header_row_idx = 1

\* The rows of the pool whose joined, lower-cased text holds a loose keyword hint
Hinted == {r \in RowPool : \E word \in HEADER_HINTS : Contains(word, Lower(JoinCells(r)))}

\* The 0-based indexes of the fallback candidates: rows among the first three with a
\* hint and at least one match
Fallbacks == {i \in 0..(Len(rows) - 1) : i < 3 /\ rows[i + 1] \in Hinted /\ Matches(rows[i + 1]) >= 1}

\* The header search of the page at hand is over
HeaderSearched == pc \in {"page", "data", "done"} /\ Len(rows) >= 2

\* C21: when none of the first four rows has 2 or more matches, the header is the
\* earliest of the first three rows that holds a keyword hint and has at least 1
\* match, and when there is no such row the table of the page yields no line items.
C21_FallbackHeader ==
  (HeaderSearched /\ Candidates = {})
  => IF Fallbacks = {}
       THEN headers = <<>> /\ all_line_items = <<>>
       ELSE /\ HeaderChosen
            /\ header_row_idx \in Fallbacks
            /\ \A j \in Fallbacks : header_row_idx <= j

\* The fallback chose row 1: row 0 holds no hint, and row 2 is a fallback candidate
\* as well
C21_Witness ==
  /\ pc = "data"
  /\ Candidates = {}
  /\ Fallbacks = {1, 2}
  /\ header_row_idx = 1

\* No row of the first four has 2 matches, none of the first three is a fallback
\* candidate although row 3 would be one, and the page is skipped
C21_NoHeaderWitness ==
  /\ pc = "page"
  /\ Len(rows) = 4
  /\ Candidates = {} /\ Fallbacks = {}
  /\ rows[4] \in Hinted /\ Matches(rows[4]) >= 1
  /\ headers = <<>>

\* The rows of the tables without a cell that holds more than white space
BlankRows == {r \in RowPool : \A c \in 1..Len(r) : Strip(r[c]) = ""}

\* parse_amount_with_currency on every trimmed cell text, computed once
ParsedCell == [cell \in CellTexts |-> parse_amount_with_currency(Strip(cell))]

\* The cell texts float() accepts although the amount parser finds no number
FloatWords == {cell \in CellTexts : FloatOfWord(Strip(cell)) # None}

\* A cell under a header of field fld gives a Description, a numeric Quantity, or a
\* UnitPrice or Amount with a numeric value
Yields(fld, cell) ==
  /\ Strip(cell) # ""
  /\ \/ fld = "description"
     \/ fld = "quantity" /\ (IsNumber(ParsedCell[cell].value) \/ cell \in FloatWords)
     \/ fld \in {"unitprice", "amount"} /\ IsNumber(ParsedCell[cell].value)

\* The columns of the row the header gives a field to
Mapped(row) == {c \in 1..Len(row) : c <= Len(headers) /\ headers[c] # None}

\* The loop is at a data row
AtDataRow == pc = "data" /\ CurrentIndex <= Len(rows)

\* The data row at hand is neither blank nor a summary row
Processed == rows[CurrentIndex] \notin BlankRows /\ rows[CurrentIndex] \notin RowsWithSummaryPhrase

\* C23: the step on a data row adds one LineItem exactly when the row is not blank,
\* not a summary row, and a header-mapped cell gave a non-empty Description, a
\* numeric Quantity or a UnitPrice or Amount with a numeric value; otherwise it adds
\* nothing, and no LineItem of the list is an empty mapping.
C23_EmittedRows ==
  /\ [](\A i \in 1..Len(all_line_items) : DOMAIN all_line_items[i] # {})
  /\ [][AtDataRow =>
         IF Processed /\ \E c \in Mapped(rows[CurrentIndex]) :
                           Yields(headers[c].str, rows[CurrentIndex][c])
           THEN /\ Len(all_line_items') = Len(all_line_items) + 1
                /\ SubSeq(all_line_items', 1, Len(all_line_items)) = all_line_items
           ELSE all_line_items' = all_line_items]_vars

\* The row "Consulting" has just been dropped under a header that maps its first
\* cell alone, to Amount: the cell is no number
C23_Witness ==
  /\ pc = "data"
  /\ row_idx = 1
  /\ rows[CurrentIndex - 1] = <<"Consulting", "10", "100.00", "1,000.00">>
  /\ headers = <<Str("amount"), None, None, None>>
  /\ ~IsNumber(ParsedCell["Consulting"].value)
  /\ all_line_items = <<>>

\* The key of the LineItem a field is stored under
ItemKey ==
  [f \in {"description", "quantity", "unitprice", "amount"} |->
     CASE f = "description" -> "Description" [] f = "quantity" -> "Quantity"
       [] f = "unitprice" -> "UnitPrice" [] f = "amount" -> "Amount"]

\* The value a cell gives to a field
ValueOf(f, cell) ==
  IF f = "description" THEN Str(Strip(cell))
  ELSE IF f = "quantity"
    THEN (IF IsNumber(ParsedCell[cell].value) THEN ParsedCell[cell].value
          ELSE FloatOfWord(Strip(cell)))
  ELSE ParsedCell[cell]

\* The non-empty cells of the row in the columns mapped to field f
Filled(row, f) == {c \in Mapped(row) : headers[c].str = f /\ Strip(row[c]) # ""}

\* Those of them that write the field: every one, but for Quantity the cells that
\* are numbers only
Writers(row, f) ==
  {c \in Filled(row, f) :
     f = "quantity" => (IsNumber(ParsedCell[row[c]].value) \/ row[c] \in FloatWords)}

\* The item has field f exactly when a column of cols is there, and then from the
\* rightmost of them
FromRightmost(item, row, f, cols) ==
  IF cols = {} THEN ItemKey[f] \notin DOMAIN item
  ELSE ItemKey[f] \in DOMAIN item /\ item[ItemKey[f]] = ValueOf(f, row[Max(cols)])

\* The step at hand adds a LineItem
Emitting == AtDataRow /\ Len(all_line_items') = Len(all_line_items) + 1

\* C26 as stated: every field of an emitted LineItem holds the value of the rightmost
\* non-empty cell among the columns mapped to it, and the fields no column is mapped
\* to are absent.
C26_RightmostFilled ==
  [][Emitting =>
       \A f \in DOMAIN ItemKey :
         FromRightmost(all_line_items'[Len(all_line_items')], rows[CurrentIndex], f,
                       Filled(rows[CurrentIndex], f))]_vars

\* C26 amended: every field of an emitted LineItem holds the value of the rightmost
\* non-empty cell, among the columns mapped to it, that writes it: a Quantity cell
\* that is no number leaves the earlier value in place. The fields no column is
\* mapped to are absent.
C26_RightmostWriter ==
  [][Emitting =>
       \A f \in DOMAIN ItemKey :
         /\ FromRightmost(all_line_items'[Len(all_line_items')], rows[CurrentIndex], f,
                          Writers(rows[CurrentIndex], f))
         /\ (\A c \in Mapped(rows[CurrentIndex]) : headers[c].str # f)
              => ItemKey[f] \notin DOMAIN all_line_items'[Len(all_line_items')]]_vars

\* "Qty" and "Amount" are both mapped to quantity and the Quantity of "Consulting"
\* is the number of its fourth cell
C26_Witness ==
  /\ pc = "data"
  /\ row_idx = 1
  /\ headers = <<Str("description"), Str("quantity"), Str("unitprice"), Str("quantity")>>
  /\ rows[CurrentIndex - 1] = <<"Consulting", "10", "100.00", "1,000.00">>
  /\ Len(all_line_items) = 1
  /\ NumEq(all_line_items[1]["Quantity"], Float(FALSE, 1000, 0))
  /\ "Amount" \notin DOMAIN all_line_items[1]

\* The fourth cell of "Travel" is not empty and no number, and its Quantity is the
\* number of the second cell
C26_KeptWitness ==
  /\ pc = "data"
  /\ row_idx = 1
  /\ headers = <<Str("description"), Str("quantity"), Str("unitprice"), Str("quantity")>>
  /\ rows[CurrentIndex - 1] = <<"Travel", "2", "", "n/a">>
  /\ Len(all_line_items) = 1
  /\ NumEq(all_line_items[1]["Quantity"], Float(FALSE, 2, 0))

\* The cell texts that hold a summary-indicator phrase
CellsWithPhrase == {cell \in CellTexts : HasSummaryIndicator(Lower(Strip(cell)))}

-----------------------------------------------------------------------------
(* The query override of parse_extracted_data applied to bounded results *)

MaxQueries == 3

\* parsed as the heuristic resolvers left it (lines 700-714)
HeuristicPool ==
  { [InvoiceNumber |-> None, InvoiceDate |-> None, LineItems |-> <<>>,
     InvoiceTotal |-> NoAmount, PaymentTerms |-> None],
    [InvoiceNumber |-> Str("INV-0001"), InvoiceDate |-> Str("2024-01-05"), LineItems |-> <<>>,
     InvoiceTotal |-> parse_amount_with_currency("$500.00"),
     PaymentTerms |-> Str("Payment within 30 days")],
    [InvoiceNumber |-> Str("INV-0001"), InvoiceDate |-> None, LineItems |-> <<>>,
     InvoiceTotal |-> NoAmount, PaymentTerms |-> None] }

\* The entries of results['queries']; an answer of None is a missing 'answer' key
QueryPool ==
  { [query |-> "What is the invoice number?", answer |-> Str("INV-9999")],
    [query |-> "What is the invoice number?", answer |-> Str("")],
    [query |-> "What is the invoice number?", answer |-> None],
    [query |-> "What is the invoice date?", answer |-> Str("2024-02-01")],
    [query |-> "What is the total amount?", answer |-> Str("1,250.00")],
    [query |-> "What is the total amount?", answer |-> Str("n/a")],
    [query |-> "What is the total amount?", answer |-> Str("")],
    [query |-> "What is the payment terms?", answer |-> Str("Net 30")],
    [query |-> "What is the vendor name?", answer |-> Str("ACME")] }

RECURSIVE QueryLists(_)
\* Every list of at most n entries of the pool
QueryLists(n) ==
  IF n = 0 THEN {<<>>}
  ELSE LET shorter == QueryLists(n - 1)
       IN  shorter \cup {Append(l, q) : l \in shorter, q \in QueryPool}

InitQuery ==
  /\ pc = "queries"
  /\ parsed \in HeuristicPool
  /\ queries \in QueryLists(MaxQueries)
  /\ q_idx = 1
  /\ IdleAmount /\ IdleHeader /\ IdleTotal /\ IdleTable /\ IdleFolder

\* Lines 724-727, 732-733: a recognized question other than the total, with an answer
OverrideField ==
  /\ pc = "queries"
  /\ q_idx <= Len(queries)
  /\ Overrides(queries[q_idx].query, queries[q_idx].answer)
  /\ queries[q_idx].query # TOTAL_QUESTION
  /\ parsed' = [parsed EXCEPT ![query_map[queries[q_idx].query]] = queries[q_idx].answer]
  /\ q_idx' = q_idx + 1
  /\ UNCHANGED <<pc, queries, amountVars, headerVars, totalVars, tableVars, folderVars>>

\* Lines 728-731: the total question with an answer that parses to a number
OverrideTotal ==
  /\ pc = "queries"
  /\ q_idx <= Len(queries)
  /\ Overrides(queries[q_idx].query, queries[q_idx].answer)
  /\ queries[q_idx].query = TOTAL_QUESTION
  /\ IsNumber(parse_amount_with_currency(queries[q_idx].answer.str).value)
  /\ parsed' = [parsed EXCEPT !.InvoiceTotal = parse_amount_with_currency(queries[q_idx].answer.str)]
  /\ q_idx' = q_idx + 1
  /\ UNCHANGED <<pc, queries, amountVars, headerVars, totalVars, tableVars, folderVars>>

\* Lines 728-730: the total question with an answer that does not parse to a number
KeepTotal ==
  /\ pc = "queries"
  /\ q_idx <= Len(queries)
  /\ Overrides(queries[q_idx].query, queries[q_idx].answer)
  /\ queries[q_idx].query = TOTAL_QUESTION
  /\ ~IsNumber(parse_amount_with_currency(queries[q_idx].answer.str).value)
  /\ q_idx' = q_idx + 1
  /\ UNCHANGED <<pc, parsed, queries, amountVars, headerVars, totalVars, tableVars, folderVars>>

\* Line 727 false: an unrecognized question, or no answer
SkipQuery ==
  /\ pc = "queries"
  /\ q_idx <= Len(queries)
  /\ ~Overrides(queries[q_idx].query, queries[q_idx].answer)
  /\ q_idx' = q_idx + 1
  /\ UNCHANGED <<pc, parsed, queries, amountVars, headerVars, totalVars, tableVars, folderVars>>

\* Line 735
ReturnParsed ==
  /\ pc = "queries"
  /\ q_idx > Len(queries)
  /\ pc' = "done"
  /\ UNCHANGED <<queryVars, amountVars, headerVars, totalVars, tableVars, folderVars>>

NextQuery == OverrideField \/ OverrideTotal \/ KeepTotal \/ SkipQuery \/ ReturnParsed

SpecQuery == InitQuery /\ [][NextQuery]_vars

-----------------------------------------------------------------------------
(* Properties of the query override, under SpecQuery *)

RecognizedQuestions ==
  {"What is the invoice number?", "What is the invoice date?",
   "What is the total amount?", "What is the payment terms?"}

FieldOf(question) ==
  CASE question = "What is the invoice number?" -> "InvoiceNumber"
    [] question = "What is the invoice date?"   -> "InvoiceDate"
    [] question = "What is the total amount?"   -> "InvoiceTotal"
    [] question = "What is the payment terms?"  -> "PaymentTerms"

NonEmptyAnswer(q) == q.answer # None /\ q.answer.str # ""

\* The positions of the entries that ask the question and carry a non-empty answer
Answered(question) ==
  {i \in 1..Len(queries) : queries[i].query = question /\ NonEmptyAnswer(queries[i])}

\* C7: an entry with a recognized question and a non-empty answer sets the field
\* to the answer whatever the field held, except that the total is set to the
\* parsed answer and only when that is numeric; any other entry changes no
\* field.  At the return, a field other than the total whose question was
\* answered holds the last such answer.
C7_QueryOverride ==
  /\ [][(pc = "queries" /\ q_idx <= Len(queries)) =>
          LET q == queries[q_idx]
          IN  IF q.query \in RecognizedQuestions /\ NonEmptyAnswer(q)
                THEN IF q.query = "What is the total amount?"
                       THEN IF IsNumber(parse_amount_with_currency(q.answer.str).value)
                              THEN parsed' = [parsed EXCEPT !.InvoiceTotal =
                                                parse_amount_with_currency(q.answer.str)]
                              ELSE parsed' = parsed
                       ELSE parsed' = [parsed EXCEPT ![FieldOf(q.query)] = q.answer]
                ELSE parsed' = parsed]_vars
  /\ [](pc = "done" =>
          \A question \in RecognizedQuestions \ {"What is the total amount?"} :
            Answered(question) # {} =>
              parsed[FieldOf(question)] = queries[Max(Answered(question))].answer)

\* The heuristic found "INV-0001", the answer "INV-9999" replaced it, a total
\* answer that is no number left the heuristic total, and an empty answer was met
C7_Witness ==
  /\ pc = "done"
  /\ queries = << [query |-> "What is the invoice number?", answer |-> Str("INV-9999")],
                  [query |-> "What is the total amount?", answer |-> Str("n/a")],
                  [query |-> "What is the invoice number?", answer |-> Str("")] >>
  /\ parsed.InvoiceNumber = Str("INV-9999")
  /\ parsed.InvoiceDate = Str("2024-01-05")
  /\ parsed.InvoiceTotal = parse_amount_with_currency("$500.00")

-----------------------------------------------------------------------------
(* The batch: process_folder, its worker pool and the task of each file *)

MaxDocs == 2

MaxParallel == 2

\* wait_for_completion's max_wait_time, counted in sleeps of line 113
max_wait_time == 2

MaxResultPages == 2

Docs == 1..pdf_files

\* The keys of the dictionary parse_extracted_data returns (lines 645-651)
RecordKeys == {"InvoiceNumber", "InvoiceDate", "LineItems", "InvoiceTotal", "PaymentTerms"}

\* The keys of the dictionary of line 855
ErrorKeys == {"error"}

\* results as lines 401-412 build it; blocks tells which pages all_blocks holds
Processing == [status |-> "processing", error |-> "", blocks |-> "none"]

\* The exception is not recorded
Unrecorded(message) == Processing

\* results as lines 480-486 return it
Failed(message) == [status |-> "failed", error |-> message, blocks |-> "none"]

\* The files whose task is inside process_single_document
Inside == {d \in Docs : task[d] \in {"start", "poll", "pages", "extract"}}

\* One worker more than max_workers
WorkerFreeOneMore(busy, limit) == busy <= limit

\* ThreadPoolExecutor(max_workers=max_parallel): a worker is free
WorkerFree(busy, limit) == busy < limit

\* No timeout
NeverTimedOut(e) == FALSE

\* Line 108: elapsed > max_wait_time
TimedOut(e) == e > max_wait_time

\* as_completed yields a future when its task has returned
FutureDone(t) == t = "returned"

RECURSIVE Dump(_, _)
\* Lines 871-875: each entry of all_parsed written to its file, in list order
Dump(outputs, entries) ==
  IF entries = <<>> THEN outputs
  ELSE Dump([outputs EXCEPT ![Head(entries).file] = Head(entries).keys], Tail(entries))

InitBatch ==
  /\ pc = "submit"
  /\ max_parallel \in 1..MaxParallel
  /\ pdf_files \in 0..MaxDocs
  /\ submitted = 0
  /\ task = [d \in Docs |-> "unsubmitted"]
  /\ job = [d \in Docs |-> "NONE"]
  /\ elapsed = [d \in Docs |-> 0]
  /\ got = [d \in Docs |-> 0]
  /\ results = [d \in Docs |-> Processing]
  /\ cur = 0
  /\ collected = {}
  /\ all_results = <<>>
  /\ all_parsed = <<>>
  /\ final_outputs = [d \in Docs |-> {}]
  /\ IdleAmount /\ IdleHeader /\ IdleTotal /\ IdleTable /\ IdleQuery /\ IdleOrder /\ IdleForms /\ IdleSync

\* Lines 789-791: no PDF file, process_folder returns
NoPdfFiles ==
  /\ pc = "submit"
  /\ pdf_files = 0
  /\ pc' = "done"
  /\ UNCHANGED <<batchVars, amountVars, headerVars, totalVars, tableVars, queryVars, orderVars, formVars, syncVars>>

\* Lines 804-822: the next file is submitted to the pool
Submit ==
  /\ pc = "submit"
  /\ submitted < pdf_files
  /\ submitted' = submitted + 1
  /\ task' = [task EXCEPT ![submitted + 1] = "queued"]
  /\ pc' = IF submitted + 1 = pdf_files THEN "collect" ELSE "submit"
  /\ UNCHANGED <<max_parallel, pdf_files, job, elapsed, got, results, cur, collected,
                 all_results, all_parsed, final_outputs,
                 amountVars, headerVars, totalVars, tableVars, queryVars, orderVars, formVars, syncVars>>

\* Line 801: a free worker takes the oldest queued task; lines 401-414
StartTask(d) ==
  /\ d \in Docs
  /\ task[d] = "queued"
  /\ \A e \in Docs : e < d => task[e] # "queued"
  /\ WorkerFree(Cardinality(Inside), max_parallel)
  /\ task' = [task EXCEPT ![d] = "start"]
  /\ UNCHANGED <<pc, max_parallel, pdf_files, submitted, job, elapsed, got, results, cur,
                 collected, all_results, all_parsed, final_outputs,
                 amountVars, headerVars, totalVars, tableVars, queryVars, orderVars, formVars, syncVars>>

\* Lines 435-437 and 480-486: the job is started, or no job id comes back
StartAnalysis(d, raises) ==
  /\ d \in Docs
  /\ task[d] = "start"
  /\ task' = [task EXCEPT ![d] = IF raises THEN "returned" ELSE "poll"]
  /\ job' = [job EXCEPT ![d] = IF raises THEN "NONE" ELSE "IN_PROGRESS"]
  /\ results' = [results EXCEPT ![d] =
                   IF raises THEN Failed("Failed to start document analysis") ELSE @]
  /\ UNCHANGED <<pc, max_parallel, pdf_files, submitted, elapsed, got, cur, collected,
                 all_results, all_parsed, final_outputs,
                 amountVars, headerVars, totalVars, tableVars, queryVars, orderVars, formVars, syncVars>>

\* The service ends a job that a task is waiting for
JobEnds(d, status) ==
  /\ d \in Docs
  /\ task[d] = "poll"
  /\ job[d] = "IN_PROGRESS"
  /\ job' = [job EXCEPT ![d] = status]
  /\ UNCHANGED <<pc, max_parallel, pdf_files, submitted, task, elapsed, got, results, cur,
                 collected, all_results, all_parsed, final_outputs,
                 amountVars, headerVars, totalVars, tableVars, queryVars, orderVars, formVars, syncVars>>

\* Lines 94-117 and 440-442: one round of the polling loop. elapsed is local to
\* wait_for_completion: it is 0 again once the loop is left, except after the
\* timeout of line 108, which it alone tells from the other failures
Poll(d, raises) ==
  /\ d \in Docs
  /\ task[d] = "poll"
  /\ IF ~raises /\ job[d] = "SUCCEEDED"
       THEN /\ task' = [task EXCEPT ![d] = "pages"]
            /\ elapsed' = [elapsed EXCEPT ![d] = 0]
            /\ UNCHANGED results
       ELSE IF raises \/ job[d] = "FAILED"
       THEN /\ task' = [task EXCEPT ![d] = "returned"]
            /\ results' = [results EXCEPT ![d] = Failed("Document analysis failed or timed out")]
            /\ elapsed' = [elapsed EXCEPT ![d] = 0]
       ELSE IF TimedOut(elapsed[d])
       THEN /\ task' = [task EXCEPT ![d] = "returned"]
            /\ results' = [results EXCEPT ![d] = Failed("Document analysis failed or timed out")]
            /\ UNCHANGED elapsed
       ELSE /\ elapsed' = [elapsed EXCEPT ![d] = IF @ > max_wait_time THEN @ ELSE @ + 1]
            /\ UNCHANGED <<task, results>>
  /\ UNCHANGED <<pc, max_parallel, pdf_files, submitted, job, got, cur, collected,
                 all_results, all_parsed, final_outputs,
                 amountVars, headerVars, totalVars, tableVars, queryVars, orderVars, formVars, syncVars>>

\* Lines 126-149: one round of the page loop; the response carries a NextToken
\* ("more"), carries none ("last"), or the call raises ClientError ("error").
\* results.blocks tells whether the pages returned are all the pages
NextPage(d, response) ==
  /\ d \in Docs
  /\ task[d] = "pages"
  /\ response = "more" => got[d] + 1 < MaxResultPages
  /\ got' = [got EXCEPT ![d] = IF response = "more" THEN @ + 1 ELSE 0]
  /\ task' = [task EXCEPT ![d] = IF response = "more" THEN "pages" ELSE "extract"]
  /\ results' = [results EXCEPT ![d].blocks =
                   IF response = "more" THEN @ ELSE IF response = "last" THEN "all" ELSE "partial"]
  /\ UNCHANGED <<pc, max_parallel, pdf_files, submitted, job, elapsed, cur, collected,
                 all_results, all_parsed, final_outputs,
                 amountVars, headerVars, totalVars, tableVars, queryVars, orderVars, formVars, syncVars>>

\* Lines 447-478: the extractors run over all_blocks and the task returns
Extract(d) ==
  /\ d \in Docs
  /\ task[d] = "extract"
  /\ task' = [task EXCEPT ![d] = "returned"]
  /\ results' = [results EXCEPT ![d].status = "completed"]
  /\ UNCHANGED <<pc, max_parallel, pdf_files, submitted, job, elapsed, got, cur, collected,
                 all_results, all_parsed, final_outputs,
                 amountVars, headerVars, totalVars, tableVars, queryVars, orderVars, formVars, syncVars>>

\* Lines 825-833: a finished future is taken, its result appended and parsed
CollectResult(d) ==
  /\ pc = "collect"
  /\ d \in Docs \ collected
  /\ FutureDone(task[d])
  /\ cur' = d
  /\ all_results' = Append(all_results, [file |-> d, status |-> results[d].status])
  /\ all_parsed' = Append(all_parsed, [file |-> d, keys |-> RecordKeys])
  /\ pc' = "report"
  /\ UNCHANGED <<max_parallel, pdf_files, submitted, task, job, elapsed, got, results,
                 collected, final_outputs,
                 amountVars, headerVars, totalVars, tableVars, queryVars, orderVars, formVars, syncVars>>

\* Lines 835-855: the markdown report is written, or writing it raises
WriteReport(raises) ==
  /\ pc = "report"
  /\ collected' = collected \cup {cur}
  /\ all_results' = IF raises THEN Append(all_results, [file |-> cur, status |-> "failed"])
                    ELSE all_results
  /\ all_parsed' = IF raises THEN Append(all_parsed, [file |-> cur, keys |-> ErrorKeys])
                   ELSE all_parsed
  /\ cur' = 0
  /\ pc' = IF collected \cup {cur} = Docs THEN "summary" ELSE "collect"
  /\ UNCHANGED <<max_parallel, pdf_files, submitted, task, job, elapsed, got, results,
                 final_outputs, amountVars, headerVars, totalVars, tableVars, queryVars, orderVars, formVars, syncVars>>

\* Lines 857-865: the summary report
WriteSummary ==
  /\ pc = "summary"
  /\ pc' = "json"
  /\ UNCHANGED <<batchVars, amountVars, headerVars, totalVars, tableVars, queryVars, orderVars, formVars, syncVars>>

\* Lines 867-876: the final JSON files
WriteJson ==
  /\ pc = "json"
  /\ final_outputs' = Dump(final_outputs, all_parsed)
  /\ pc' = "done"
  /\ UNCHANGED <<max_parallel, pdf_files, submitted, task, job, elapsed, got, results, cur,
                 collected, all_results, all_parsed,
                 amountVars, headerVars, totalVars, tableVars, queryVars, orderVars, formVars, syncVars>>

NextBatch ==
  \/ NoPdfFiles
  \/ Submit
  \/ \E d \in 1..MaxDocs : StartTask(d)
  \/ \E d \in 1..MaxDocs, raises \in BOOLEAN : StartAnalysis(d, raises)
  \/ \E d \in 1..MaxDocs, status \in {"SUCCEEDED", "FAILED"} : JobEnds(d, status)
  \/ \E d \in 1..MaxDocs, raises \in BOOLEAN : Poll(d, raises)
  \/ \E d \in 1..MaxDocs, response \in {"more", "last", "error"} : NextPage(d, response)
  \/ \E d \in 1..MaxDocs : Extract(d)
  \/ \E d \in 1..MaxDocs : CollectResult(d)
  \/ \E raises \in BOOLEAN : WriteReport(raises)
  \/ WriteSummary
  \/ WriteJson

SpecBatch == InitBatch /\ [][NextBatch]_vars

\* The threads are scheduled fairly and every call of the service returns; a call
\* that raises, and the end of a job, are left to the service
FairBatch ==
  /\ SpecBatch
  /\ WF_vars(Submit) /\ WF_vars(NoPdfFiles)
  /\ \A d \in 1..MaxDocs :
       /\ WF_vars(StartTask(d))
       /\ WF_vars(StartAnalysis(d, FALSE))
       /\ WF_vars(Poll(d, FALSE))
       /\ WF_vars(NextPage(d, "more") \/ NextPage(d, "last"))
       /\ WF_vars(Extract(d))
       /\ WF_vars(CollectResult(d))
  /\ WF_vars(WriteReport(FALSE)) /\ WF_vars(WriteSummary) /\ WF_vars(WriteJson)

-----------------------------------------------------------------------------
(* Properties of the batch *)

\* C13: when process_folder has written the final JSON files, the file of every
\* document holds exactly the five keys InvoiceNumber, InvoiceDate, LineItems,
\* InvoiceTotal and PaymentTerms, whatever happened to the document
C13_FiveKeys ==
  pc = "done" => \A d \in Docs : final_outputs[d] = RecordKeys

\* The task of file d has returned and its metadata holds a terminal status, with
\* the message of the exception when it failed
Settled(d) ==
  /\ task[d] = "returned"
  /\ results[d].status \in {"completed", "failed"}
  /\ results[d].status = "failed" => results[d].error # ""

\* C14: whatever exception the tasks raise, process_folder reaches the summary
\* report, and by then every submitted file has been processed to a terminal
\* status (failed ones with their error message) and collected
C14_FailureIsolation ==
  (pc = "submit" /\ pdf_files > 0) ~>
    (pc = "summary" /\ collected = Docs /\ \A d \in Docs :
       /\ Settled(d)
       /\ \E i \in 1..Len(all_results) : all_results[i] = [file |-> d, status |-> results[d].status])

\* One file failed, the other completed, and the summary report is reached
C14_Witness ==
  /\ pc = "summary"
  /\ \E d, e \in Docs : results[d].status = "failed" /\ results[e].status = "completed"

\* The wait of file d ended by the timeout of line 108
WaitTimedOut(d) == task[d] = "returned" /\ job[d] = "IN_PROGRESS" /\ elapsed[d] > max_wait_time

\* C15: every wait ends, also when the job never succeeds or fails: from some
\* moment on no file is in the polling loop and no file has status "processing";
\* and a file whose wait timed out is failed
C15_BoundedWait ==
  /\ [](\A d \in Docs : WaitTimedOut(d) => results[d].status = "failed")
  /\ <>[](\A d \in Docs : task[d] # "poll" /\ results[d].status # "processing")

\* A wait timed out, and every file was still processed and collected
C15_Witness ==
  /\ pc = "done"
  /\ pdf_files > 1
  /\ \E d \in Docs : WaitTimedOut(d) /\ results[d].status = "failed"
  /\ \A d \in Docs : Settled(d)

\* C16: a file reported as completed was extracted from the blocks of every
\* result page of its job, never from a part of them
C16_AllPages ==
  \A d \in Docs : results[d].status = "completed" => results[d].blocks = "all"

EntriesOf(list, d) == Cardinality({i \in DOMAIN list : list[i].file = d})

\* The number of entries of all_results with the given status (lines 891-892)
WithStatus(status) == Cardinality({i \in DOMAIN all_results : all_results[i].status = status})

\* C25: once every future is collected, all_results and all_parsed hold exactly
\* one entry for each submitted file, and the successful and failed counts add up to
\* the number of files.
C25_OneEntryPerFile ==
  (pc \in {"summary", "json", "done"} /\ pdf_files > 0)
  => /\ \A d \in Docs : EntriesOf(all_results, d) = 1 /\ EntriesOf(all_parsed, d) = 1
     /\ WithStatus("completed") + WithStatus("failed") = pdf_files

\* One file, completed, whose report could not be written: two entries in each
\* list, one successful and one failed
C25_TwoEntries ==
  /\ pc = "summary"
  /\ pdf_files = 1
  /\ all_results = <<[file |-> 1, status |-> "completed"], [file |-> 1, status |-> "failed"]>>
  /\ Len(all_parsed) = 2

-----------------------------------------------------------------------------
(* The order of the line items: the tables built from CELL blocks in block
   order, then read page by page *)

MaxBlocks == 4

MaxPage == 2

MaxRowIndex == 2

\* The CELL blocks, by their Page and RowIndex
CellBlocks == [Page : 1..MaxPage, RowIndex : 1..MaxRowIndex]

RECURSIVE BlockLists(_)
\* Every list of at most n CELL blocks
BlockLists(n) ==
  IF n = 0 THEN {<<>>}
  ELSE LET shorter == BlockLists(n - 1)
       IN  shorter \cup {Append(l, b) : l \in shorter, b \in CellBlocks}

\* Position of page in the dictionary, 0 when it has no entry
PageEntry(t, page) ==
  IF \E i \in 1..Len(t) : t[i].page = page
    THEN CHOOSE i \in 1..Len(t) : t[i].page = page
    ELSE 0

\* Lines 572-576: a new page goes to the end of the dictionary, a known one keeps its place
PutCell(t, block) ==
  IF PageEntry(t, block.Page) = 0
    THEN Append(t, [page |-> block.Page, rows |-> {block.RowIndex}])
    ELSE [t EXCEPT ![PageEntry(t, block.Page)].rows = @ \cup {block.RowIndex}]

\* The line items of the rows in their order
OriginsOf(page, row_list, kept) ==
  SelectSeq([i \in 1..Len(row_list) |-> [page |-> page, row |-> row_list[i]]],
            LAMBDA o : o.row \in kept)

InitOrder ==
  /\ pc = "cells"
  /\ blocks \in BlockLists(MaxBlocks)
  /\ b_idx = 1
  /\ tables = <<>>
  /\ t_idx = 0
  /\ origins = <<>>
  /\ IdleAmount /\ IdleHeader /\ IdleTotal /\ IdleTable /\ IdleQuery /\ IdleBatch /\ IdleForms /\ IdleSync

\* Lines 565-576: one CELL block
AddCell ==
  /\ pc = "cells"
  /\ b_idx <= Len(blocks)
  /\ tables' = PutCell(tables, blocks[b_idx])
  /\ b_idx' = b_idx + 1
  /\ UNCHANGED <<pc, blocks, t_idx, origins,
                 amountVars, headerVars, totalVars, tableVars, queryVars, batchVars, formVars, syncVars>>

\* Line 597 of extract_invoice_data: extract_line_items_from_tables(tables, block_map)
StartItems ==
  /\ pc = "cells"
  /\ b_idx > Len(blocks)
  /\ t_idx' = 1
  /\ pc' = "pages"
  /\ UNCHANGED <<blocks, b_idx, tables, origins,
                 amountVars, headerVars, totalVars, tableVars, queryVars, batchVars, formVars, syncVars>>

\* Lines 373-505: one page of tables.items(). Its rows are read by ascending row
\* index (line 381); a page of fewer than 2 rows gives nothing (line 391); the
\* items come from rows after the first one, kept being the rows that pass the
\* header search and the row filters
TakePage(kept) ==
  /\ pc = "pages"
  /\ t_idx <= Len(tables)
  /\ kept \subseteq tables[t_idx].rows
  /\ Cardinality(tables[t_idx].rows) < 2 => kept = {}
  /\ \A r \in kept : \E h \in tables[t_idx].rows : h < r
  /\ origins' = origins \o OriginsOf(tables[t_idx].page, Sorted(tables[t_idx].rows), kept)
  /\ t_idx' = t_idx + 1
  /\ UNCHANGED <<pc, blocks, b_idx, tables,
                 amountVars, headerVars, totalVars, tableVars, queryVars, batchVars, formVars, syncVars>>

\* Line 508
ReturnItems ==
  /\ pc = "pages"
  /\ t_idx > Len(tables)
  /\ pc' = "returned"
  /\ UNCHANGED <<orderVars, amountVars, headerVars, totalVars, tableVars, queryVars, batchVars, formVars, syncVars>>

NextOrder ==
  \/ AddCell
  \/ StartItems
  \/ \E kept \in SUBSET (1..MaxRowIndex) : TakePage(kept)
  \/ ReturnItems

SpecOrder == InitOrder /\ [][NextOrder]_vars

\* C18: in the returned sequence an item of a lower page comes before an item of
\* a higher page, and the items of one page come by ascending row index
C18_OutputOrder ==
  pc = "returned" =>
    \A i, j \in 1..Len(origins) :
      i < j => \/ origins[i].page < origins[j].page
               \/ origins[i].page = origins[j].page /\ origins[i].row < origins[j].row

-----------------------------------------------------------------------------
(* The key-value map: kv_pairs built from the KEY blocks by extract_invoice_data,
   and by extract_forms followed by parse_extracted_data *)

MaxKeyBlocks == 2

\* A KEY block: its own Text when it has one, the Text of its child words, and the
\* child words of each VALUE block it is related to (none: no VALUE relationship)
KeyBlockPool ==
  [ Text   : {None, Str(" Due Date ")},
    words  : {<<>>, <<"Invoice", "No">>, <<" ">>},
    values : {<<>>, << <<>> >>, << <<"42">> >>, << <<" ">> >>, << <<"Net", "30">>, <<>> >>} ]

RECURSIVE KeyBlockLists(_)
\* Every list of at most n KEY blocks
KeyBlockLists(n) ==
  IF n = 0 THEN {<<>>}
  ELSE LET shorter == KeyBlockLists(n - 1)
       IN  shorter \cup {Append(l, b) : l \in shorter, b \in KeyBlockPool}

RECURSIVE Spaced(_)
\* text += child["Text"] + " " for every child word
Spaced(words) ==
  IF words = <<>> THEN "" ELSE Head(words) \o " " \o Spaced(Tail(words))

\* extract_text_from_block reads the child words; _get_text_from_block returns the
\* block's own Text when it has one
KeyText(p, block) ==
  IF p = "textract_client" /\ block.Text # None THEN block.Text.str
  ELSE Strip(Spaced(block.words))

\* invoice_processor.py lines 551-558 keep the text of the last VALUE block;
\* _find_value_block returns the first one
ValueText(p, block) ==
  IF block.values = <<>> THEN ""
  ELSE IF p = "textract_client" THEN Strip(Spaced(block.values[1]))
  ELSE Strip(Strip(Spaced(block.values[Len(block.values)])))

\* The key being set alone
KeepsKey(key, value) == key # ""

\* if key_text and value_text (line 560); if key and value (line 658)
Keeps(key, value) == key # "" /\ value # ""

\* kv_pairs[key] = value
PutPair(kv, key, value) ==
  IF \E i \in 1..Len(kv) : kv[i][1] = key
    THEN [i \in 1..Len(kv) |-> IF kv[i][1] = key THEN <<key, value>> ELSE kv[i]]
    ELSE Append(kv, <<key, value>>)

InitForms ==
  /\ pipeline \in {"invoice_processor", "textract_client"}
  /\ pc = IF pipeline = "invoice_processor" THEN "pairs" ELSE "forms"
  /\ key_blocks \in KeyBlockLists(MaxKeyBlocks)
  /\ k_idx = 1
  /\ forms = <<>>
  /\ IdleAmount /\ IdleHeader /\ IdleTotal /\ IdleTable /\ IdleQuery /\ IdleBatch /\ IdleOrder /\ IdleSync

\* invoice_processor.py lines 549-561: one KEY block
AddPair ==
  /\ pipeline = "invoice_processor"
  /\ pc = "pairs"
  /\ k_idx <= Len(key_blocks)
  /\ kv_pairs' =
       IF Keeps(Strip(Lower(KeyText(pipeline, key_blocks[k_idx]))),
                ValueText(pipeline, key_blocks[k_idx]))
         THEN PutPair(kv_pairs, Strip(Lower(KeyText(pipeline, key_blocks[k_idx]))),
                      ValueText(pipeline, key_blocks[k_idx]))
         ELSE kv_pairs
  /\ k_idx' = k_idx + 1
  /\ UNCHANGED <<pc, pipeline, key_blocks, forms, table_totals, all_text, best_total,
                 best_priority, table_candidates, total,
                 amountVars, headerVars, tableVars, queryVars, batchVars, orderVars, syncVars>>

\* textract_client.py lines 216-230: one KEY block
AddForm ==
  /\ pipeline = "textract_client"
  /\ pc = "forms"
  /\ k_idx <= Len(key_blocks)
  /\ forms' =
       IF KeyText(pipeline, key_blocks[k_idx]) # ""
         THEN Append(forms, [key |-> KeyText(pipeline, key_blocks[k_idx]),
                             value |-> ValueText(pipeline, key_blocks[k_idx])])
         ELSE forms
  /\ k_idx' = k_idx + 1
  /\ UNCHANGED <<pc, pipeline, key_blocks, totalVars,
                 amountVars, headerVars, tableVars, queryVars, batchVars, orderVars, syncVars>>

\* textract_client.py lines 233 and 655: the forms are returned, then read
FormsDone ==
  /\ pc = "forms"
  /\ k_idx > Len(key_blocks)
  /\ k_idx' = 1
  /\ pc' = "pairs"
  /\ UNCHANGED <<pipeline, key_blocks, forms, totalVars,
                 amountVars, headerVars, tableVars, queryVars, batchVars, orderVars, syncVars>>

\* textract_client.py lines 655-659: one form
BuildPair ==
  /\ pipeline = "textract_client"
  /\ pc = "pairs"
  /\ k_idx <= Len(forms)
  /\ kv_pairs' =
       IF Keeps(Strip(Lower(forms[k_idx].key)), Strip(forms[k_idx].value))
         THEN PutPair(kv_pairs, Strip(Lower(forms[k_idx].key)), Strip(forms[k_idx].value))
         ELSE kv_pairs
  /\ k_idx' = k_idx + 1
  /\ UNCHANGED <<pc, pipeline, key_blocks, forms, table_totals, all_text, best_total,
                 best_priority, table_candidates, total,
                 amountVars, headerVars, tableVars, queryVars, batchVars, orderVars, syncVars>>

\* The map is complete
PairsDone ==
  /\ pc = "pairs"
  /\ k_idx > (IF pipeline = "invoice_processor" THEN Len(key_blocks) ELSE Len(forms))
  /\ pc' = "mapped"
  /\ UNCHANGED <<formVars, totalVars,
                 amountVars, headerVars, tableVars, queryVars, batchVars, orderVars, syncVars>>

NextForms == AddPair \/ AddForm \/ FormsDone \/ BuildPair \/ PairsDone

SpecForms == InitForms /\ [][NextForms]_vars

\* The KEY blocks read so far that have a key and a paired value of non-empty text
Paired(n) ==
  {i \in 1..n : /\ Strip(Lower(KeyText(pipeline, key_blocks[i]))) # ""
                /\ Strip(ValueText(pipeline, key_blocks[i])) # ""}

\* C19: in both pipelines every entry of kv_pairs has a non-empty, lower-cased,
\* trimmed key and a non-empty, trimmed value, and it comes from a KEY block with
\* that key and a paired value of non-empty text; the other KEY blocks give no entry
C19_KeyValueMap ==
  /\ \A i \in 1..Len(kv_pairs) :
       /\ kv_pairs[i][1] # "" /\ kv_pairs[i][1] = Strip(Lower(kv_pairs[i][1]))
       /\ kv_pairs[i][2] # "" /\ kv_pairs[i][2] = Strip(kv_pairs[i][2])
       /\ \E b \in Paired(Len(key_blocks)) :
            /\ kv_pairs[i][1] = Strip(Lower(KeyText(pipeline, key_blocks[b])))
            /\ kv_pairs[i][2] = Strip(ValueText(pipeline, key_blocks[b]))
  /\ pc = "mapped" =>
       {kv_pairs[i][1] : i \in 1..Len(kv_pairs)}
         = {Strip(Lower(KeyText(pipeline, key_blocks[b]))) : b \in Paired(Len(key_blocks))}

\* A KEY block without a VALUE relationship and one whose value is blank were
\* dropped, next to a pair that was kept
C19_Witness ==
  /\ pc = "mapped"
  /\ Len(key_blocks) = 2
  /\ Len(kv_pairs) = 1
  /\ \E i \in 1..2 : /\ KeyText(pipeline, key_blocks[i]) # ""
                      /\ ValueText(pipeline, key_blocks[i]) = ""

-----------------------------------------------------------------------------
(* The synchronization with S3: sync_folder called twice on an unchanged folder *)

\* The names of the local PDF files
FileNames == {"a.pdf", "b.pdf"}

\* The object keys under s3_prefix: the part after the prefix is dir \o name
ObjectKeys == [dir : {"", "old/"}, name : FileNames] \cup {[dir |-> "", name |-> "c.txt"]}

\* get_file_hash of a local file; the folder does not change
FileHash(f) == "h1"

\* The entries of the metadata; last_synced is the run that wrote the entry
MetadataFiles ==
  UNION {[S -> [hash : {"h0", "h1"}, last_synced : {0}]] : S \in SUBSET FileNames}

\* Line 64: key.endswith('.pdf')
EndsWithPdf(key) ==
  Len(key.name) >= 4 /\ SubSeq(key.name, Len(key.name) - 3, Len(key.name)) = ".pdf"

\* Lines 60-70: s3_files[os.path.basename(key)] for every listed PDF key; a later
\* key replaces an earlier one of the same basename, and the keys are listed in
\* byte order, a.pdf and b.pdf before old/a.pdf and old/b.pdf
get_s3_files(objects) ==
  [f \in {k.name : k \in {o \in objects : EndsWithPdf(o)}} |->
     IF [dir |-> "old/", name |-> f] \in objects THEN [dir |-> "old/", name |-> f]
     ELSE [dir |-> "", name |-> f]]

\* Lines 110-117
NeedsUpload(f) ==
  IF f \notin DOMAIN s3_files THEN TRUE
  ELSE IF f \notin DOMAIN sync_metadata THEN TRUE
  ELSE sync_metadata[f].hash # FileHash(f)

InitSync ==
  /\ pc = "sync"
  /\ run = 1
  /\ local_files \in SUBSET FileNames
  /\ bucket \in SUBSET ObjectKeys
  /\ metadata_file \in MetadataFiles
  /\ sync_metadata = <<>> /\ s3_files = <<>> /\ todo = {}
  /\ uploaded = {} /\ skipped = {} /\ deleted = {}
  /\ call_failed = FALSE
  /\ IdleAmount /\ IdleHeader /\ IdleTotal /\ IdleTable /\ IdleQuery
  /\ IdleBatch /\ IdleOrder /\ IdleForms

\* Lines 84-101: the metadata is loaded, the bucket listed (the listing is empty
\* when the call raises, lines 71-72), the local files found
StartSync(fails) ==
  /\ pc = "sync"
  /\ sync_metadata' = metadata_file
  /\ s3_files' = IF fails THEN get_s3_files({}) ELSE get_s3_files(bucket)
  /\ todo' = local_files
  /\ uploaded' = {} /\ skipped' = {} /\ deleted' = {}
  /\ call_failed' = (call_failed \/ fails)
  /\ pc' = "upload"
  /\ UNCHANGED <<run, local_files, bucket, metadata_file, amountVars, headerVars, totalVars,
                 tableVars, queryVars, batchVars, orderVars, formVars>>

\* Lines 104-121: an unchanged file
SkipFile(f) ==
  /\ pc = "upload"
  /\ f \in todo
  /\ ~NeedsUpload(f)
  /\ skipped' = skipped \cup {f}
  /\ todo' = todo \ {f}
  /\ UNCHANGED <<pc, run, local_files, bucket, metadata_file, sync_metadata, s3_files,
                 uploaded, deleted, call_failed, amountVars, headerVars, totalVars,
                 tableVars, queryVars, batchVars, orderVars, formVars>>

\* Lines 104-137: a new or modified file; the upload may raise
UploadFile(f, fails) ==
  /\ pc = "upload"
  /\ f \in todo
  /\ NeedsUpload(f)
  /\ todo' = todo \ {f}
  /\ call_failed' = (call_failed \/ fails)
  /\ IF fails
       THEN UNCHANGED <<bucket, uploaded, sync_metadata>>
       ELSE /\ bucket' = bucket \cup {[dir |-> "", name |-> f]}
            /\ uploaded' = uploaded \cup {f}
            /\ sync_metadata' =
                 [g \in DOMAIN sync_metadata \cup {f} |->
                    IF g = f THEN [hash |-> FileHash(f), last_synced |-> run]
                    ELSE sync_metadata[g]]
  /\ UNCHANGED <<pc, run, local_files, metadata_file, s3_files, skipped, deleted,
                 amountVars, headerVars, totalVars, tableVars, queryVars, batchVars,
                 orderVars, formVars>>

\* The loop of line 140 without the test of line 141: every listed file is taken
StartDeletesOfAll ==
  /\ pc = "upload"
  /\ todo = {}
  /\ todo' = DOMAIN s3_files
  /\ pc' = "delete"
  /\ UNCHANGED <<run, local_files, bucket, metadata_file, sync_metadata, s3_files,
                 uploaded, skipped, deleted, call_failed, amountVars, headerVars,
                 totalVars, tableVars, queryVars, batchVars, orderVars, formVars>>

\* Lines 140-141: the listed files that are not in the local folder
StartDeletes ==
  /\ pc = "upload"
  /\ todo = {}
  /\ todo' = {f \in DOMAIN s3_files : f \notin local_files}
  /\ pc' = "delete"
  /\ UNCHANGED <<run, local_files, bucket, metadata_file, sync_metadata, s3_files,
                 uploaded, skipped, deleted, call_failed, amountVars, headerVars,
                 totalVars, tableVars, queryVars, batchVars, orderVars, formVars>>

\* Lines 142-152: the object of a file that is gone locally; the delete may raise
DeleteObject(f, fails) ==
  /\ pc = "delete"
  /\ f \in todo
  /\ todo' = todo \ {f}
  /\ call_failed' = (call_failed \/ fails)
  /\ IF fails
       THEN UNCHANGED <<bucket, deleted, sync_metadata>>
       ELSE /\ bucket' = bucket \ {s3_files[f]}
            /\ deleted' = deleted \cup {f}
            /\ sync_metadata' = [g \in DOMAIN sync_metadata \ {f} |-> sync_metadata[g]]
  /\ UNCHANGED <<pc, run, local_files, metadata_file, s3_files, uploaded, skipped,
                 amountVars, headerVars, totalVars, tableVars, queryVars, batchVars,
                 orderVars, formVars>>

\* Lines 155-157: the metadata is saved and the lists returned; the second call follows
SaveMetadata ==
  /\ pc = "delete"
  /\ todo = {}
  /\ metadata_file' = sync_metadata
  /\ run' = IF run = 1 THEN 2 ELSE run
  /\ pc' = IF run = 1 THEN "sync" ELSE "synced"
  /\ UNCHANGED <<local_files, bucket, sync_metadata, s3_files, todo, uploaded, skipped,
                 deleted, call_failed, amountVars, headerVars, totalVars, tableVars,
                 queryVars, batchVars, orderVars, formVars>>

NextSync ==
  \/ \E fails \in BOOLEAN : StartSync(fails)
  \/ \E f \in FileNames : SkipFile(f)
  \/ \E f \in FileNames, fails \in BOOLEAN : UploadFile(f, fails)
  \/ StartDeletes
  \/ \E f \in FileNames, fails \in BOOLEAN : DeleteObject(f, fails)
  \/ SaveMetadata

SpecSync == InitSync /\ [][NextSync]_vars

\* C20: when no call of the storage service failed in either run, the second
\* sync_folder uploads nothing, deletes nothing, skips every local PDF and is
\* about to save the metadata it loaded
C20_SyncIdempotent ==
  (pc = "delete" /\ todo = {} /\ run = 2 /\ ~call_failed) =>
    /\ uploaded = {}
    /\ deleted = {}
    /\ skipped = local_files
    /\ sync_metadata = metadata_file

\* The metadata entry of f is written by the step at hand: added or changed
EntryWritten(f) ==
  /\ f \in DOMAIN sync_metadata'
  /\ f \in DOMAIN sync_metadata => sync_metadata'[f] # sync_metadata[f]

\* The metadata entry of f is removed by the step at hand
EntryRemoved(f) == f \in DOMAIN sync_metadata /\ f \notin DOMAIN sync_metadata'

\* C28: the deleted list holds no local PDF filename, and so none that was uploaded
\* or skipped; uploaded and skipped are disjoint; no object with the name of a local
\* file leaves the bucket; and within a call the metadata entry of a file is written
\* only by the step that uploads it and removed only by the step that deletes it.
C28_SafeDeletes ==
  /\ [](/\ deleted \cap local_files = {}
        /\ deleted \cap (uploaded \cup skipped) = {}
        /\ uploaded \cap skipped = {})
  /\ [][/\ \A o \in bucket \ bucket' : o.name \notin local_files
        /\ pc \in {"upload", "delete"} =>
             \A f \in FileNames :
               /\ EntryWritten(f) => f \in uploaded' \ uploaded
               /\ EntryRemoved(f) => f \in deleted' \ deleted]_vars

\* In one call a.pdf was uploaded, the object of b.pdf, gone locally, was deleted
\* and its entry removed, and the name a.pdf is still in the bucket
C28_Witness ==
  /\ pc = "delete" /\ todo = {}
  /\ local_files = {"a.pdf"}
  /\ uploaded = {"a.pdf"} /\ deleted = {"b.pdf"}
  /\ "b.pdf" \in DOMAIN metadata_file /\ "b.pdf" \notin DOMAIN sync_metadata
  /\ [dir |-> "", name |-> "a.pdf"] \in bucket

=============================================================================
